---- MODULE Spec2Model ----
(***************************************************************************)
(* Consumer Session Manager of the lava RPC consumer                       *)
(* (protocol/lavasession, ConsumerSessionManager) as a state machine.      *)
(*                                                                         *)
(* Every goroutine that calls into the manager is a worker with a program  *)
(* counter; one step of a worker is one critical section of the code (the  *)
(* part run under csm.lock, under a provider's Lock, or under the session  *)
(* lock) or one atomic read.  UpdateAllProviders is run by the state       *)
(* tracker and is split where it writes the epoch.                         *)
(***************************************************************************)
EXTENDS Integers, Sequences, FiniteSets, TLC

\* ---------------------------------------------------------------- bounds
\* Highest epoch the state tracker installs.
MaxEpoch == 2
\* Calls of UpdateAllProviders, GetSession and GetDataReliabilitySession
\* started in one behaviour.
MaxOps == 3
\* Regular sessions one provider entry may hold in the model.
MaxSlots == 2
\* MaxComputeUnits of every ConsumerSessionsWithProvider of a pairing list.
EntryMaxCU == 2
\* Largest vrf index an auditor asks for.
MaxIndex == 2

\* ------------------------------------------------------ program constants
MaxSessionsAllowedPerProvider == 1000
MaxAllowedBlockListedSessionPerProvider == 3
MaximumNumberOfFailuresAllowedPerConsumerSession == 3
RelayNumberIncrement == 1
DataReliabilitySessionId == 0
DataReliabilityRelayNumber == 1
DataReliabilityCuSum == 0

\* ----------------------------------------------------------------- inputs
Workers == {"w1", "w2"}
WorkerOrder == <<"w1", "w2">>
Addrs == {"A", "B"}
\* pairing lists handed to UpdateAllProviders: index i of the list is
\* position i+1 of the sequence.  <<"A","A">> lists one address twice.
PairingLists == {<<"A", "B">>, <<"A", "A">>}
\* the exclude sets callers of GetSession pass
UnwantedSets == {{}, {"A"}}
\* compute units of one relay
CUs == {1, 2}
\* errors a relay can end with, by what OnSessionFailure reads of them
RelayErrors == {"Timeout", "SessionOutOfSync", "BlockProvider", "ReportAndBlockProvider"}
\* what one attempt to connect to a provider's endpoints can end with
Connections == {"connected", "notConnected", "AllProviderEndpointsDisabled"}
Epochs == 0..MaxEpoch
\* vrf indexes an auditor may ask for: those of a pairing list and beyond
Indexes == 0..MaxIndex
\* a ConsumerSessionsWithProvider is the pair <<PairingEpoch, PublicLavaAddress>>
EntryIds == (1..MaxEpoch) \X Addrs
NoEntry == <<0, "">>
NoSlot == -1

VARIABLES
    currentEpoch,            \* csm.currentEpoch
    numberOfResets,          \* csm.numberOfResets
    pairingAddresses,        \* csm.pairingAddresses, vrf index -> address
    pairingAddressesLength,  \* csm.pairingAddressesLength
    validAddresses,          \* csm.validAddresses
    addedToPurgeAndReport,   \* csm.addedToPurgeAndReport
    pairing,                 \* csm.pairing, address -> entry
    pairingPurge,            \* csm.pairingPurge
    csmLock,                 \* csm.lock: "free" or "w" (UpdateAllProviders inside)
    upd,                     \* UpdateAllProviders: its arguments while inside, its last result
    cswp,                    \* every ConsumerSessionsWithProvider: used CU and sessions
    th,                      \* the workers: program counter and locals
    ops,                     \* calls started so far
    relay,                   \* SendRelay of the RPC consumer server: its locals
    aud,                     \* sendDataReliabilityRelayIfApplicable: its locals
    call                     \* a call of a function of lavaprotocol: arguments, result

csmVars == <<currentEpoch, numberOfResets, pairingAddresses, pairingAddressesLength,
             validAddresses, addedToPurgeAndReport, pairing, pairingPurge>>
vars == <<currentEpoch, numberOfResets, pairingAddresses, pairingAddressesLength,
          validAddresses, addedToPurgeAndReport, pairing, pairingPurge, csmLock, upd,
          cswp, th, ops, relay, aud, call>>
serverVars == <<relay, aud, call>>

\* ------------------------------------------------------------- data types
\* SingleConsumerSession as the provider's entry creates it: locked.  Seen is
\* not a field of the code: it is the RelayNum of the last relay request of
\* this session that went out to the provider.
NewSession ==
    [RelayNum |-> 0, CuSum |-> 0, LatestRelayCu |-> 0,
     ConsecutiveNumberOfFailures |-> 0, BlockListed |-> FALSE, lock |-> TRUE,
     Seen |-> 0]

NoSessions == [i \in {} |-> NewSession]

\* ConsumerSessionsWithProvider as a pairing list carries it
NewEntry == [UsedComputeUnits |-> 0, Sessions |-> NoSessions]

\* RelaySession, the fields that depend on the session: no relay was built
NoRelaySession == [SessionId |-> NoSlot, CuSum |-> 0, RelayNum |-> 0]

\* locals of a worker that is in no call; err is what its last call returned
IdleTh(err) ==
    [pc |-> "idle", cu |-> 0, unwanted |-> {}, ignored |-> {}, ignoredEpoch |-> 0,
     startEpoch |-> 0, provider |-> "", sessionEpoch |-> 0,
     cswp |-> NoEntry, slot |-> NoSlot, err |-> err,
     cuToDecrease |-> 0, blockListed |-> FALSE,
     block |-> FALSE, reportProvider |-> FALSE, caller |-> "",
     originalProviderAddress |-> "", relaySession |-> NoRelaySession]

\* the session a worker refers to
Sess(t) == cswp[th[t].cswp].Sessions[th[t].slot]

SetSess(e, s, rec) ==
    [cswp EXCEPT ![e].Sessions =
        [i \in (DOMAIN @) \cup {s} |-> IF i = s THEN rec ELSE @[i]]]

Range(f) == {f[i] : i \in DOMAIN f}

Set(t, r) == th' = [th EXCEPT ![t] = r]

\* the lowest idle worker takes the next call: workers are interchangeable
MayStart(t) ==
    /\ th[t].pc = "idle"
    /\ \A i, j \in DOMAIN WorkerOrder :
          (i < j /\ WorkerOrder[j] = t) => th[WorkerOrder[i]].pc # "idle"
    /\ ops < MaxOps

\* no SendRelay, no audit, no call of lavaprotocol is under way
NoRelay == [pc |-> "idle"]
NoAudit == [pc |-> "idle"]
NoCall == [pc |-> "idle"]

\* ------------------------------------------------------------------- Init
\* NewConsumerSessionManager: every field is Go's zero value
Init ==
    /\ currentEpoch = 0
    /\ numberOfResets = 0
    /\ pairingAddresses = << >>
    /\ pairingAddressesLength = 0
    /\ validAddresses = << >>
    /\ addedToPurgeAndReport = {}
    /\ pairing = [a \in {} |-> NoEntry]
    /\ pairingPurge = [a \in {} |-> NoEntry]
    /\ csmLock = "free"
    /\ upd = [epoch |-> 0, list |-> << >>, err |-> "none"]
    /\ cswp = [e \in EntryIds |-> NewEntry]
    /\ th = [t \in Workers |-> IdleTh("")]
    /\ ops = 0
    /\ relay = NoRelay
    /\ aud = NoAudit
    /\ call = NoCall

\* ----------------------------------------------------- UpdateAllProviders
\* line 101: the epoch handed in is not newer than the current one
StaleEpochAsLess(epoch) == epoch < currentEpoch

UpdateEpochIsStale(epoch) == epoch <= currentEpoch

\* setValidAddressesToDefaultValue: the addresses of pairingAddresses.  The Go
\* map is ranged in no fixed order; every use of validAddresses (a random
\* pick, a membership test, removing one occurrence, its length) is blind to
\* the order, so the list is kept in index order.
setValidAddressesToDefaultValue(addresses) == addresses

\* lines 98-105: take csm.lock, refuse an epoch that is not newer, write the epoch
UpdateAllProvidersBegin(epoch, pairingList) ==
    /\ csmLock = "free"
    /\ ops < MaxOps
    /\ ops' = ops + 1
    /\ IF UpdateEpochIsStale(epoch)
       THEN /\ upd' = [epoch |-> epoch, list |-> << >>, err |-> "StaleEpoch"]
            /\ UNCHANGED <<csmVars, csmLock>>
       ELSE /\ currentEpoch' = epoch
            /\ csmLock' = "w"
            /\ upd' = [epoch |-> epoch, list |-> pairingList, err |-> "none"]
            /\ UNCHANGED <<numberOfResets, pairingAddresses, pairingAddressesLength,
                           validAddresses, addedToPurgeAndReport, pairing, pairingPurge>>
    /\ UNCHANGED <<cswp, th>>
    /\ UNCHANGED serverVars

\* lines 107-125 without line 109: the reported providers are kept
UpdateAllProvidersFinishKeepReported ==
    /\ csmLock = "w"
    /\ pairingAddresses' = upd.list
    /\ pairingAddressesLength' = Len(upd.list)
    /\ numberOfResets' = 0
    /\ pairingPurge' = pairing
    /\ pairing' = [a \in Range(upd.list) |-> <<upd.epoch, a>>]
    /\ validAddresses' = upd.list
    /\ csmLock' = "free"
    /\ upd' = [epoch |-> upd.epoch, list |-> << >>, err |-> "ok"]
    /\ UNCHANGED <<currentEpoch, addedToPurgeAndReport, cswp, th, ops>>
    /\ UNCHANGED serverVars

\* lines 107-125: reset the per-epoch state, rotate pairing to pairingPurge,
\* install the list, release csm.lock
UpdateAllProvidersFinish ==
    /\ csmLock = "w"
    /\ pairingAddresses' = upd.list
    /\ addedToPurgeAndReport' = {}
    /\ pairingAddressesLength' = Len(upd.list)
    /\ numberOfResets' = 0
    /\ pairingPurge' = pairing
    /\ pairing' = [a \in Range(upd.list) |-> <<upd.epoch, a>>]
    /\ validAddresses' = setValidAddressesToDefaultValue(upd.list)
    /\ csmLock' = "free"
    /\ upd' = [epoch |-> upd.epoch, list |-> << >>, err |-> "ok"]
    /\ UNCHANGED <<currentEpoch, cswp, th, ops>>
    /\ UNCHANGED serverVars

UpdateAllProviders ==
    \/ \E epoch \in Epochs, pairingList \in PairingLists :
          UpdateAllProvidersBegin(epoch, pairingList)
    \/ UpdateAllProvidersFinish

\* ------------------------------------------------ ConsumerSessionsWithProvider
\* validateComputeUnits: the provider can still take cu
validateComputeUnits(entry, cu) ==
    IF entry.UsedComputeUnits + cu > EntryMaxCU THEN "MaxComputeUnitsExceeded" ELSE ""

\* addUsedComputeUnits without its check
addUsedComputeUnitsUnchecked(entry, cu) ==
    [err |-> "", UsedComputeUnits |-> entry.UsedComputeUnits + cu]

\* addUsedComputeUnits, under the provider's Lock: the check again, then the add
addUsedComputeUnits(entry, cu) ==
    IF entry.UsedComputeUnits + cu > EntryMaxCU
    THEN [err |-> "MaxComputeUnitsExceeded", UsedComputeUnits |-> entry.UsedComputeUnits]
    ELSE [err |-> "", UsedComputeUnits |-> entry.UsedComputeUnits + cu]

\* decreaseUsedComputeUnits, under the provider's Lock
decreaseUsedComputeUnits(entry, cu) == entry.UsedComputeUnits - cu

RegularIds(entry) == DOMAIN entry.Sessions \ {DataReliabilitySessionId}

BlockListedIds(entry) == {i \in RegularIds(entry) : entry.Sessions[i].BlockListed}

\* the sessions getConsumerSessionInstanceFromEndpoint may lock and return
IdleIds(entry) ==
    {i \in RegularIds(entry) :
        ~entry.Sessions[i].lock /\ ~entry.Sessions[i].BlockListed}

\* the id of a session opened now (the code draws a random non-zero id)
FreshId(entry) == CHOOSE i \in 1..(MaxSlots + 1) : i \notin DOMAIN entry.Sessions

\* getConsumerSessionInstanceFromEndpoint, under the provider's Lock: what it can
\* return for this entry: a session id to lock (an idle one, or a new one), or
\* the error.  Too many block-listed sessions block the provider; a new
\* session is opened while the provider has fewer than the maximum.  Which of
\* an idle session and a new one it prefers is left open: either is returned.
getConsumerSessionInstanceFromEndpoint(entry) ==
    IF Cardinality(BlockListedIds(entry)) > MaxAllowedBlockListedSessionPerProvider
    THEN {[err |-> "MaximumNumberOfBlockListedSessions", slot |-> NoSlot]}
    ELSE LET canOpen == /\ Cardinality(RegularIds(entry)) < MaxSessionsAllowedPerProvider
                        /\ Cardinality(RegularIds(entry)) < MaxSlots
             got == {[err |-> "", slot |-> i] : i \in IdleIds(entry)}
                    \cup (IF canOpen THEN {[err |-> "", slot |-> FreshId(entry)]} ELSE {})
         IN IF got # {} THEN got
            ELSE IF Cardinality(RegularIds(entry)) >= MaxSessionsAllowedPerProvider
                 THEN {[err |-> "MaximumNumberOfSessionsExceeded", slot |-> NoSlot]}
                 ELSE {}

\* verifyLock that finds every session locked
verifyLockAlwaysHeld(consumerSession) == ""

\* verifyLock (446-453): TryLock succeeds only on a session nobody holds
verifyLock(consumerSession) ==
    IF ~consumerSession.lock THEN "LockMisUseDetected" ELSE ""

\* ------------------------------------------------------------- GetSession
\* getValidProviderAddress picking among all valid addresses, ignored or not
getValidProviderAddressOfAll(ignoredProvidersList, r) ==
    IF Len(validAddresses) = 0 THEN [address |-> "", err |-> "PairingListEmpty"]
    ELSE [address |-> validAddresses[(r % Len(validAddresses)) + 1], err |-> ""]

\* getValidProviderAddress (353-374) with rand.Intn returning r: the r-th
\* address of validAddresses that is not ignored
getValidProviderAddress(ignoredProvidersList, r) ==
    LET totalValidLength == Len(validAddresses) - Cardinality(ignoredProvidersList)
        notIgnored == SelectSeq(validAddresses, LAMBDA a : a \notin ignoredProvidersList)
    IN IF totalValidLength <= 0 THEN [address |-> "", err |-> "PairingListEmpty"]
       ELSE IF r + 1 <= Len(notIgnored) THEN [address |-> notIgnored[r + 1], err |-> ""]
       ELSE [address |-> "", err |-> "UnreachableCode"]

\* what rand.Intn(totalValidLength) can return
RandChoices(ignoredProvidersList) ==
    LET totalValidLength == Len(validAddresses) - Cardinality(ignoredProvidersList)
    IN IF totalValidLength <= 0 THEN {0} ELSE 0..(totalValidLength - 1)

\* the next iteration of GetSession's loop, with these providers ignored
Retry(t, ignored) ==
    [th[t] EXCEPT !.pc = "getValidConsumerSessionsWithProvider", !.ignored = ignored,
                  !.provider = "", !.sessionEpoch = 0, !.cswp = NoEntry, !.slot = NoSlot,
                  !.reportProvider = FALSE, !.caller = ""]

\* lines 244-256.  shouldResetValidAddresses (210-218) reads, under the read
\* lock, whether validAddresses is empty; when it is not, the next thing the
\* call reads is the epoch (255), with which tempIgnoredProviders starts.
GetSession(t, cuNeededForSession, initUnwantedProviders) ==
    /\ MayStart(t)
    /\ csmLock = "free"
    /\ ops' = ops + 1
    /\ Set(t, IF Len(validAddresses) = 0
              THEN [IdleTh("") EXCEPT !.pc = "resetValidAddresses",
                                      !.cu = cuNeededForSession,
                                      !.unwanted = initUnwantedProviders]
              ELSE [IdleTh("") EXCEPT !.pc = "getValidConsumerSessionsWithProvider",
                                      !.cu = cuNeededForSession,
                                      !.unwanted = initUnwantedProviders,
                                      !.ignored = initUnwantedProviders,
                                      !.ignoredEpoch = currentEpoch,
                                      !.startEpoch = currentEpoch])
    /\ UNCHANGED <<csmVars, csmLock, upd, cswp>>

\* resetValidAddresses (221-231) counting a reset whatever it finds
resetValidAddressesCounted(t) ==
    /\ th[t].pc = "resetValidAddresses"
    /\ csmLock = "free"
    /\ validAddresses' = IF Len(validAddresses) = 0
                         THEN setValidAddressesToDefaultValue(pairingAddresses)
                         ELSE validAddresses
    /\ numberOfResets' = numberOfResets + 1
    /\ Set(t, [th[t] EXCEPT !.pc = "getValidConsumerSessionsWithProvider",
                            !.ignored = th[t].unwanted,
                            !.ignoredEpoch = currentEpoch,
                            !.startEpoch = currentEpoch])
    /\ UNCHANGED <<currentEpoch, pairingAddresses, pairingAddressesLength,
                   addedToPurgeAndReport, pairing, pairingPurge, csmLock, upd, cswp, ops>>
    /\ UNCHANGED serverVars

\* resetValidAddresses (221-231), under the write lock, then the read of the
\* epoch (255)
resetValidAddresses(t) ==
    /\ th[t].pc = "resetValidAddresses"
    /\ csmLock = "free"
    /\ IF Len(validAddresses) = 0
       THEN /\ validAddresses' = setValidAddressesToDefaultValue(pairingAddresses)
            /\ numberOfResets' = numberOfResets + 1
       ELSE UNCHANGED <<validAddresses, numberOfResets>>
    /\ Set(t, [th[t] EXCEPT !.pc = "getValidConsumerSessionsWithProvider",
                            !.ignored = th[t].unwanted,
                            !.ignoredEpoch = currentEpoch,
                            !.startEpoch = currentEpoch])
    /\ UNCHANGED <<currentEpoch, pairingAddresses, pairingAddressesLength,
                   addedToPurgeAndReport, pairing, pairingPurge, csmLock, upd, cswp, ops>>
    /\ UNCHANGED serverVars

\* getValidConsumerSessionsWithProvider (376-396) under the read lock, then what
\* GetSession does with its result up to the next lock it takes (260-295):
\* the connection attempt touches no state of the manager, its outcome is the
\* endpoint's.
getValidConsumerSessionsWithProvider(t) ==
    /\ th[t].pc = "getValidConsumerSessionsWithProvider"
    /\ csmLock = "free"
    /\ LET reset == th[t].ignoredEpoch < currentEpoch
           ignored == IF reset THEN {} ELSE th[t].ignored
           me == [th[t] EXCEPT !.ignored = ignored, !.ignoredEpoch = currentEpoch]
       IN \E r \in RandChoices(ignored), connection \in Connections :
            LET got == getValidProviderAddress(ignored, r)
                entry == pairing[got.address]
            IN IF got.err = "PairingListEmpty"
               THEN Set(t, IdleTh("PairingListEmpty"))
               ELSE IF got.err # ""
               THEN Set(t, [IdleTh(got.err) EXCEPT !.pc = "fatal"])
               ELSE IF validateComputeUnits(cswp[entry], th[t].cu) # ""
               THEN Set(t, [me EXCEPT !.ignored = ignored \cup {got.address}])
               ELSE IF connection = "notConnected"
               THEN Set(t, [me EXCEPT !.ignored = ignored \cup {got.address}])
               ELSE IF connection = "AllProviderEndpointsDisabled"
               THEN Set(t, [me EXCEPT !.pc = "blockProviderEpoch", !.caller = "GetSession",
                                      !.provider = got.address, !.sessionEpoch = currentEpoch,
                                      !.cswp = entry, !.reportProvider = TRUE])
               ELSE Set(t, [me EXCEPT !.pc = "getConsumerSessionInstanceFromEndpoint",
                                      !.provider = got.address, !.sessionEpoch = currentEpoch,
                                      !.cswp = entry])
    /\ UNCHANGED <<csmVars, csmLock, upd, cswp, ops>>
    /\ UNCHANGED serverVars

\* GetReportedProviders (601-614) under the read lock: what it returns
GetReportedProviders(epoch) ==
    IF epoch # currentEpoch THEN {} ELSE addedToPurgeAndReport

\* lines 304-327: lock a session of the provider, or skip the provider
GetSessionInstance(t) ==
    /\ th[t].pc = "getConsumerSessionInstanceFromEndpoint"
    /\ LET e == th[t].cswp
       IN \E got \in getConsumerSessionInstanceFromEndpoint(cswp[e]) :
            IF got.err = "MaximumNumberOfSessionsExceeded"
            THEN /\ Set(t, Retry(t, th[t].ignored \cup {th[t].provider}))
                 /\ UNCHANGED cswp
            ELSE IF got.err = "MaximumNumberOfBlockListedSessions"
            THEN /\ Set(t, [th[t] EXCEPT !.pc = "blockProviderEpoch",
                                         !.caller = "GetSessionBlockListed",
                                         !.reportProvider = FALSE])
                 /\ UNCHANGED cswp
            ELSE /\ cswp' = SetSess(e, got.slot,
                                    IF got.slot \in DOMAIN cswp[e].Sessions
                                    THEN [cswp[e].Sessions[got.slot] EXCEPT !.lock = TRUE]
                                    ELSE NewSession)
                 /\ Set(t, [th[t] EXCEPT !.pc = "addUsedComputeUnits", !.slot = got.slot,
                                         !.sessionEpoch = e[1]])
    /\ UNCHANGED <<csmVars, csmLock, upd, ops>>
    /\ UNCHANGED serverVars

\* lines 343-344 with the session unlocked on the way out
ReturnedSessionUnlocked(consumerSession, cuNeededForSession) ==
    [consumerSession EXCEPT !.LatestRelayCu = cuNeededForSession,
                            !.RelayNum = @ + RelayNumberIncrement,
                            !.lock = FALSE]

\* lines 343-344: the session GetSession returns, still locked
ReturnedSession(consumerSession, cuNeededForSession) ==
    [consumerSession EXCEPT !.LatestRelayCu = cuNeededForSession,
                            !.RelayNum = @ + RelayNumberIncrement]

\* lines 329-347: charge the provider; on success set the relay's CU and number
\* and return the locked session, else unlock it and skip the provider
GetSessionAddUsedComputeUnits(t) ==
    /\ th[t].pc = "addUsedComputeUnits"
    /\ LET e == th[t].cswp
           added == addUsedComputeUnits(cswp[e], th[t].cu)
       IN IF added.err # ""
          THEN /\ cswp' = SetSess(e, th[t].slot, [Sess(t) EXCEPT !.lock = FALSE])
               /\ Set(t, Retry(t, th[t].ignored \cup {th[t].provider}))
          ELSE /\ cswp' = [SetSess(e, th[t].slot, ReturnedSession(Sess(t), th[t].cu))
                             EXCEPT ![e].UsedComputeUnits = added.UsedComputeUnits]
               /\ Set(t, [th[t] EXCEPT !.pc = "held",
                                       !.ignored = IF relay.pc = "idle" THEN {} ELSE @,
                                       !.ignoredEpoch = 0,
                                       !.cu = 0])
    /\ UNCHANGED <<csmVars, csmLock, upd, ops>>
    /\ UNCHANGED serverVars

\* ----------------------------------------------------------- blockProvider
\* removeAddressFromValidAddresses (399-409) that removes nothing
removeAddressFromValidAddressesKept(address) == validAddresses

\* removeAddressFromValidAddresses (399-409): the first occurrence goes
removeAddressFromValidAddresses(address) ==
    IF \E i \in DOMAIN validAddresses : validAddresses[i] = address
    THEN LET idx == CHOOSE i \in DOMAIN validAddresses :
                       /\ validAddresses[i] = address
                       /\ \A j \in 1..(i - 1) : validAddresses[j] # address
         IN SubSeq(validAddresses, 1, idx - 1) \o
            SubSeq(validAddresses, idx + 1, Len(validAddresses))
    ELSE validAddresses

\* blockProvider from line 419 on, without the second look at the epoch
blockProviderUnchecked(address, reportProvider, sessionEpoch) ==
    [err |-> "",
     validAddresses |-> removeAddressFromValidAddresses(address),
     addedToPurgeAndReport |-> IF reportProvider
                               THEN addedToPurgeAndReport \cup {address}
                               ELSE addedToPurgeAndReport]

\* blockProvider from line 419 on, under the write lock (419-443): its error
\* and what it leaves in validAddresses and addedToPurgeAndReport
blockProviderLocked(address, reportProvider, sessionEpoch) ==
    IF sessionEpoch # currentEpoch
    THEN [err |-> "EpochMismatch", validAddresses |-> validAddresses,
          addedToPurgeAndReport |-> addedToPurgeAndReport]
    ELSE [err |-> "",
          validAddresses |-> removeAddressFromValidAddresses(address),
          addedToPurgeAndReport |-> IF reportProvider
                                    THEN addedToPurgeAndReport \cup {address}
                                    ELSE addedToPurgeAndReport]

\* what the caller of blockProvider does with its result: GetSession goes on
\* with its loop (279-286) or returns the error (313-316), the audit's
\* connection loop gives up (648-669), the failure reports return nil
\* (530-538, 761-770)
AfterBlockProvider(t, err) ==
    IF th[t].caller = "GetSession" THEN Retry(t, th[t].ignored)
    ELSE IF th[t].caller = "GetSessionBlockListed"
    THEN (IF err # "" THEN IdleTh(err) ELSE Retry(t, th[t].ignored))
    ELSE IF th[t].caller = "GetDataReliabilitySession"
    THEN IdleTh("FailedToConnectToEndPointForDataReliability")
    ELSE IdleTh("")

\* line 415: the look at the epoch before the lock is taken
blockProviderEpoch(t) ==
    /\ th[t].pc = "blockProviderEpoch"
    /\ Set(t, IF th[t].sessionEpoch # currentEpoch
              THEN AfterBlockProvider(t, "EpochMismatch")
              ELSE [th[t] EXCEPT !.pc = "blockProvider"])
    /\ UNCHANGED <<csmVars, csmLock, upd, cswp, ops>>
    /\ UNCHANGED serverVars

\* lines 419-443
blockProvider(t) ==
    /\ th[t].pc = "blockProvider"
    /\ csmLock = "free"
    /\ LET done == blockProviderLocked(th[t].provider, th[t].reportProvider,
                                       th[t].sessionEpoch)
       IN /\ validAddresses' = done.validAddresses
          /\ addedToPurgeAndReport' = done.addedToPurgeAndReport
          /\ Set(t, AfterBlockProvider(t, done.err))
    /\ UNCHANGED <<currentEpoch, numberOfResets, pairingAddresses, pairingAddressesLength,
                   pairing, pairingPurge, csmLock, upd, cswp, ops>>
    /\ UNCHANGED serverVars

\* ------------------------------------------------------------ the relay
\* ConstructRelaySession (lavaprotocol, 379-393): the relay session of a
\* regular relay claims the CU of the session with this relay's
ConstructRelaySession(sessionId, singleConsumerSession) ==
    [SessionId |-> sessionId,
     CuSum |-> singleConsumerSession.CuSum + singleConsumerSession.LatestRelayCu,
     RelayNum |-> singleConsumerSession.RelayNum]

\* an audit relay session that claims one CU for each relay of the session
dataReliabilityRelaySessionPerRelay(relayNum) ==
    [SessionId |-> DataReliabilitySessionId,
     CuSum |-> relayNum,
     RelayNum |-> relayNum]

\* dataReliabilityRelaySession (lavaprotocol, 395-409): the relay session of
\* an audit relay, built from constants and the RelayNum it is handed
dataReliabilityRelaySession(relayNum) ==
    [SessionId |-> DataReliabilitySessionId,
     CuSum |-> DataReliabilityCuSum,
     RelayNum |-> relayNum]

\* the relay request built from the session goes out: the provider sees its
\* RelayNum (sendRelayToProvider 203, sendReliabilityRelay 410, relayInner)
RelaySend(t) ==
    /\ th[t].pc \in {"held", "heldDataReliability"}
    /\ cswp' = SetSess(th[t].cswp, th[t].slot, [Sess(t) EXCEPT !.Seen = Sess(t).RelayNum])
    /\ Set(t, [th[t] EXCEPT !.pc = IF th[t].pc = "held" THEN "sent" ELSE "sentDataReliability",
                            !.unwanted = {}, !.startEpoch = 0,
                            !.originalProviderAddress = "",
                            !.relaySession =
                                IF th[t].pc = "held"
                                THEN ConstructRelaySession(th[t].slot, Sess(t))
                                ELSE dataReliabilityRelaySession(Sess(t).RelayNum)])
    /\ UNCHANGED <<csmVars, csmLock, upd, ops>>

\* ------------------------------------------------------------- releases
\* lines 591-593 without the add to CuSum
OnSessionDoneKeepCuSum(consumerSession) ==
    [consumerSession EXCEPT !.LatestRelayCu = 0,
                            !.ConsecutiveNumberOfFailures = 0,
                            !.lock = FALSE]

\* OnSessionDone (590-597) and OnSessionDoneIncreaseCUOnly (719-723): the
\* session they leave, unlocked by the deferred Unlock
OnSessionDoneSession(consumerSession) ==
    [consumerSession EXCEPT !.CuSum = @ + consumerSession.LatestRelayCu,
                            !.LatestRelayCu = 0,
                            !.ConsecutiveNumberOfFailures = 0,
                            !.lock = FALSE]

\* OnSessionDone (574-598)
OnSessionDone(t) ==
    /\ th[t].pc = "sent"
    /\ IF verifyLock(Sess(t)) # ""
       THEN /\ Set(t, IdleTh(verifyLock(Sess(t))))
            /\ UNCHANGED cswp
       ELSE /\ cswp' = SetSess(th[t].cswp, th[t].slot, OnSessionDoneSession(Sess(t)))
            /\ Set(t, IdleTh(""))
    /\ UNCHANGED <<csmVars, csmLock, upd, ops>>
    /\ UNCHANGED serverVars

\* OnSessionDoneIncreaseCUOnly (714-724), the release of a subscription
OnSessionDoneIncreaseCUOnly(t) ==
    /\ th[t].pc = "sent"
    /\ IF verifyLock(Sess(t)) # ""
       THEN /\ Set(t, IdleTh(verifyLock(Sess(t))))
            /\ UNCHANGED cswp
       ELSE /\ cswp' = SetSess(th[t].cswp, th[t].slot, OnSessionDoneSession(Sess(t)))
            /\ Set(t, IdleTh(""))
    /\ UNCHANGED <<csmVars, csmLock, upd, ops>>
    /\ UNCHANGED serverVars

\* lines 461-465 without line 462: the CU of the relay stays in the session
OnSessionUnUsedKeepLatestCu(consumerSession) ==
    [consumerSession EXCEPT !.lock = FALSE]

\* lines 461-465: the session OnSessionUnUsed leaves
OnSessionUnUsedSession(consumerSession) ==
    [consumerSession EXCEPT !.LatestRelayCu = 0, !.lock = FALSE]

\* OnSessionUnUsed up to the Unlock (458-465): the reply came from the cache
OnSessionUnUsed(t) ==
    /\ th[t].pc = "held"
    /\ IF verifyLock(Sess(t)) # ""
       THEN /\ Set(t, IdleTh(verifyLock(Sess(t))))
            /\ UNCHANGED cswp
       ELSE /\ cswp' = SetSess(th[t].cswp, th[t].slot, OnSessionUnUsedSession(Sess(t)))
            /\ Set(t, [th[t] EXCEPT !.pc = "decreaseUsedComputeUnits",
                                    !.cuToDecrease = Sess(t).LatestRelayCu,
                                    !.unwanted = {}, !.startEpoch = 0])
    /\ UNCHANGED <<csmVars, csmLock, upd, ops>>
    /\ UNCHANGED serverVars

\* line 466
OnSessionUnUsedDecrease(t) ==
    /\ th[t].pc = "decreaseUsedComputeUnits"
    /\ cswp' = [cswp EXCEPT ![th[t].cswp].UsedComputeUnits =
                   decreaseUsedComputeUnits(cswp[th[t].cswp], th[t].cuToDecrease)]
    /\ Set(t, IdleTh(""))
    /\ UNCHANGED <<csmVars, csmLock, upd, ops>>
    /\ UNCHANGED serverVars

\* lines 512-517 and 749-754: what the error says about the provider
ErrorBlocksProvider(errorReceived) ==
    errorReceived \in {"ReportAndBlockProvider", "BlockProvider"}

ErrorReportsProvider(errorReceived) == errorReceived = "ReportAndBlockProvider"

\* line 493 with >= for >: the failure that reaches the maximum block-lists
SessionBlockListedAtMaximum(failures, errorReceived) ==
    \/ failures >= MaximumNumberOfFailuresAllowedPerConsumerSession
    \/ errorReceived = "SessionOutOfSync"

\* lines 493 and 742-746: this failure block-lists the session
SessionBlockListed(failures, errorReceived) ==
    \/ failures > MaximumNumberOfFailuresAllowedPerConsumerSession
    \/ errorReceived = "SessionOutOfSync"

\* OnSessionFailure up to the Unlock (474-503)
OnSessionFailure(t, errorReceived) ==
    /\ th[t].pc = "sent"
    /\ IF verifyLock(Sess(t)) # ""
       THEN /\ Set(t, IdleTh(verifyLock(Sess(t))))
            /\ UNCHANGED cswp
       ELSE IF Sess(t).BlockListed
       THEN /\ Set(t, IdleTh("SessionIsAlreadyBlockListed"))
            /\ UNCHANGED cswp
       ELSE LET failures == Sess(t).ConsecutiveNumberOfFailures + 1
                consumerSessionBlockListed == SessionBlockListed(failures, errorReceived)
            IN /\ cswp' = SetSess(th[t].cswp, th[t].slot,
                             [Sess(t) EXCEPT !.ConsecutiveNumberOfFailures = failures,
                                             !.BlockListed = consumerSessionBlockListed,
                                             !.LatestRelayCu = 0,
                                             !.lock = FALSE])
               /\ Set(t, [th[t] EXCEPT !.pc = "failureDecrease",
                                       !.cuToDecrease = Sess(t).LatestRelayCu,
                                       !.blockListed = consumerSessionBlockListed,
                                       !.block = ErrorBlocksProvider(errorReceived),
                                       !.reportProvider = ErrorReportsProvider(errorReceived),
                                       !.relaySession = NoRelaySession])
    /\ UNCHANGED <<csmVars, csmLock, upd, ops>>

\* where OnSessionFailure goes once it knows whether to block (528-538)
FailureBlocks(t, block, reportProvider) ==
    IF block
    THEN [th[t] EXCEPT !.pc = "blockProviderEpoch", !.caller = "OnSessionFailure",
                       !.block = TRUE, !.reportProvider = reportProvider,
                       !.sessionEpoch = th[t].cswp[1], !.cuToDecrease = 0,
                       !.blockListed = FALSE]
    ELSE IdleTh("")

\* line 505; a session that was not block-listed needs no look at the used
\* CU, and the call goes on to 528
OnSessionFailureDecrease(t) ==
    /\ th[t].pc = "failureDecrease"
    /\ cswp' = [cswp EXCEPT ![th[t].cswp].UsedComputeUnits =
                   decreaseUsedComputeUnits(cswp[th[t].cswp], th[t].cuToDecrease)]
    /\ Set(t, IF th[t].blockListed
              THEN [th[t] EXCEPT !.pc = "atomicReadUsedComputeUnits", !.cuToDecrease = 0]
              ELSE FailureBlocks(t, th[t].block, th[t].reportProvider))
    /\ UNCHANGED <<csmVars, csmLock, upd, ops>>
    /\ UNCHANGED serverVars

\* lines 521-527 without the look at the used CU
OnSessionFailureReadUsedIgnored(t) ==
    /\ th[t].pc = "atomicReadUsedComputeUnits"
    /\ Set(t, FailureBlocks(t, th[t].block, th[t].reportProvider))
    /\ UNCHANGED <<csmVars, csmLock, upd, cswp, ops>>
    /\ UNCHANGED serverVars

\* lines 521-527: a block-listed session of a provider with no used CU
\* reports the provider
OnSessionFailureReadUsed(t) ==
    /\ th[t].pc = "atomicReadUsedComputeUnits"
    /\ Set(t, IF cswp[th[t].cswp].UsedComputeUnits = 0
              THEN FailureBlocks(t, TRUE, TRUE)
              ELSE FailureBlocks(t, th[t].block, th[t].reportProvider))
    /\ UNCHANGED <<csmVars, csmLock, upd, cswp, ops>>
    /\ UNCHANGED serverVars

\* ------------------------------------------------- GetDataReliabilitySession
\* getDataReliabilityProviderIndex without lines 633-635
getDataReliabilityProviderIndexOfAny(unAllowedAddress, index) ==
    IF index >= pairingAddressesLength
    THEN [err |-> "DataReliabilityIndexOutOfRange", address |-> ""]
    ELSE [err |-> "", address |-> pairingAddresses[index + 1]]

\* getDataReliabilityProviderIndex (623-638) under the read lock
getDataReliabilityProviderIndex(unAllowedAddress, index) ==
    IF index >= pairingAddressesLength
    THEN [err |-> "DataReliabilityIndexOutOfRange", address |-> ""]
    ELSE IF pairingAddresses[index + 1] = unAllowedAddress
    THEN [err |-> "DataReliabilityIndexRequestedIsOriginalProvider", address |-> ""]
    ELSE [err |-> "", address |-> pairingAddresses[index + 1]]

\* line 680 refusing only an epoch that is older than the current one
DataReliabilityEpochIsOlder(sessionEpoch) == sessionEpoch < currentEpoch

\* line 680: the epoch of the relay to audit is not the current one
DataReliabilityEpochMismatch(sessionEpoch) == sessionEpoch # currentEpoch

\* lines 676-682
GetDataReliabilitySession(t, originalProviderAddress, index, sessionEpoch) ==
    /\ MayStart(t)
    /\ csmLock = "free"
    /\ ops' = ops + 1
    /\ LET got == getDataReliabilityProviderIndex(originalProviderAddress, index)
       IN Set(t, IF got.err # "" THEN IdleTh(got.err)
                 ELSE IF DataReliabilityEpochMismatch(sessionEpoch)
                 THEN IdleTh("DataReliabilityEpochMismatch")
                 ELSE [IdleTh("") EXCEPT
                          !.pc = "verifyDataReliabilitySessionWasNotAlreadyCreated",
                          !.provider = got.address, !.cswp = pairing[got.address],
                          !.sessionEpoch = currentEpoch, !.slot = DataReliabilitySessionId,
                          !.originalProviderAddress = originalProviderAddress])
    /\ UNCHANGED <<csmVars, csmLock, upd, cswp>>

\* verifyDataReliabilitySessionWasNotAlreadyCreated, under the provider's
\* Lock: the provider has no audit session yet, or has sent its audit relay
\* of this epoch, or has an audit session to lock and return
verifyDataReliabilitySessionWasNotAlreadyCreated(entry) ==
    IF DataReliabilitySessionId \notin DOMAIN entry.Sessions
    THEN "NoDataReliabilitySessionWasCreated"
    ELSE IF entry.Sessions[DataReliabilitySessionId].RelayNum >= DataReliabilityRelayNumber
    THEN "DataReliabilityAlreadySentThisEpoch"
    ELSE ""

\* lines 685-691 and 698-700: the look for an audit session; without one, the
\* connection attempts of fetchEndpointFromConsumerSessionsWithProviderWithRetry
\* (640-672), which touch no state of the manager
GetDataReliabilitySessionVerify(t) ==
    /\ th[t].pc = "verifyDataReliabilitySessionWasNotAlreadyCreated"
    /\ LET e == th[t].cswp
           found == verifyDataReliabilitySessionWasNotAlreadyCreated(cswp[e])
       IN IF found = "DataReliabilityAlreadySentThisEpoch"
          THEN /\ Set(t, IdleTh(found))
               /\ UNCHANGED cswp
          ELSE IF found = ""
          THEN IF Sess(t).lock
               THEN /\ Set(t, [th[t] EXCEPT !.pc = "dataReliabilityLock"])
                    /\ UNCHANGED cswp
               ELSE /\ cswp' = SetSess(e, th[t].slot, [Sess(t) EXCEPT !.lock = TRUE])
                    /\ Set(t, [th[t] EXCEPT !.pc = "dataReliabilityRelayNum"])
          ELSE /\ \E connection \in Connections :
                    Set(t, IF connection = "connected"
                           THEN [th[t] EXCEPT !.pc = "getDataReliabilitySingleConsumerSession"]
                           ELSE IF connection = "notConnected"
                           THEN IdleTh("FailedToConnectToEndPointForDataReliability")
                           ELSE [th[t] EXCEPT !.pc = "blockProviderEpoch",
                                              !.caller = "GetDataReliabilitySession",
                                              !.reportProvider = TRUE])
               /\ UNCHANGED cswp
    /\ UNCHANGED <<csmVars, csmLock, upd, ops>>
    /\ UNCHANGED serverVars

\* the audit session is held by another call: its Lock() returns when the
\* holder unlocks
GetDataReliabilitySessionLock(t) ==
    /\ th[t].pc = "dataReliabilityLock"
    /\ ~Sess(t).lock
    /\ cswp' = SetSess(th[t].cswp, th[t].slot, [Sess(t) EXCEPT !.lock = TRUE])
    /\ Set(t, [th[t] EXCEPT !.pc = "dataReliabilityRelayNum"])
    /\ UNCHANGED <<csmVars, csmLock, upd, ops>>
    /\ UNCHANGED serverVars

\* getDataReliabilitySingleConsumerSession (line 694), under the provider's
\* Lock: the audit session another call made meanwhile, else a new locked one
getDataReliabilitySingleConsumerSession(t) ==
    /\ th[t].pc = "getDataReliabilitySingleConsumerSession"
    /\ LET e == th[t].cswp
           found == verifyDataReliabilitySessionWasNotAlreadyCreated(cswp[e])
       IN IF found = "DataReliabilityAlreadySentThisEpoch"
          THEN /\ Set(t, IdleTh(found))
               /\ UNCHANGED cswp
          ELSE IF found = ""
          THEN IF Sess(t).lock
               THEN /\ Set(t, [th[t] EXCEPT !.pc = "dataReliabilityLock"])
                    /\ UNCHANGED cswp
               ELSE /\ cswp' = SetSess(e, th[t].slot, [Sess(t) EXCEPT !.lock = TRUE])
                    /\ Set(t, [th[t] EXCEPT !.pc = "dataReliabilityRelayNum"])
          ELSE /\ cswp' = SetSess(e, DataReliabilitySessionId, NewSession)
               /\ Set(t, [th[t] EXCEPT !.pc = "dataReliabilityRelayNum"])
    /\ UNCHANGED <<csmVars, csmLock, upd, ops>>
    /\ UNCHANGED serverVars

\* lines 702-710: the epoch returned is the pairing's, RelayNum goes up by one
GetDataReliabilitySessionRelayNum(t) ==
    /\ th[t].pc = "dataReliabilityRelayNum"
    /\ cswp' = SetSess(th[t].cswp, th[t].slot, [Sess(t) EXCEPT !.RelayNum = @ + 1])
    /\ Set(t, [th[t] EXCEPT !.pc = "heldDataReliability",
                            !.sessionEpoch = th[t].cswp[1]])
    /\ UNCHANGED <<csmVars, csmLock, upd, ops>>
    /\ UNCHANGED serverVars

\* OnDataReliabilitySessionDone (553-571)
OnDataReliabilitySessionDone(t) ==
    /\ th[t].pc = "sentDataReliability"
    /\ IF verifyLock(Sess(t)) # ""
       THEN /\ Set(t, IdleTh(verifyLock(Sess(t))))
            /\ UNCHANGED cswp
       ELSE /\ cswp' = SetSess(th[t].cswp, th[t].slot,
                               [Sess(t) EXCEPT !.ConsecutiveNumberOfFailures = 0,
                                               !.lock = FALSE])
            /\ Set(t, IdleTh(""))
    /\ UNCHANGED <<csmVars, csmLock, upd, ops>>
    /\ UNCHANGED serverVars

\* OnDataReliabilitySessionFailure (727-771) up to its call of blockProvider
OnDataReliabilitySessionFailure(t, errorReceived) ==
    /\ th[t].pc = "sentDataReliability"
    /\ IF verifyLock(Sess(t)) # ""
       THEN /\ Set(t, IdleTh(verifyLock(Sess(t))))
            /\ UNCHANGED cswp
       ELSE IF Sess(t).BlockListed
       THEN /\ Set(t, IdleTh("SessionIsAlreadyBlockListed"))
            /\ UNCHANGED cswp
       ELSE LET failures == Sess(t).ConsecutiveNumberOfFailures + 1
            IN /\ cswp' = SetSess(th[t].cswp, th[t].slot,
                             [Sess(t) EXCEPT
                                 !.ConsecutiveNumberOfFailures = failures,
                                 !.RelayNum = @ - 1,
                                 !.BlockListed = SessionBlockListed(failures, errorReceived),
                                 !.lock = FALSE])
               /\ Set(t, IF ErrorBlocksProvider(errorReceived)
                         THEN [th[t] EXCEPT !.pc = "blockProviderEpoch",
                                            !.caller = "OnDataReliabilitySessionFailure",
                                            !.block = TRUE,
                                            !.reportProvider = ErrorReportsProvider(errorReceived),
                                            !.sessionEpoch = th[t].cswp[1],
                                            !.relaySession = NoRelaySession]
                         ELSE IdleTh(""))
    /\ UNCHANGED <<csmVars, csmLock, upd, ops>>

\* -------------------------------------------------------------------- Next
Next ==
    \/ UpdateAllProviders
    \/ \E t \in Workers :
         \/ \E cu \in CUs, unwanted \in UnwantedSets :
               GetSession(t, cu, unwanted) /\ UNCHANGED serverVars
         \/ resetValidAddresses(t)
         \/ getValidConsumerSessionsWithProvider(t)
         \/ GetSessionInstance(t)
         \/ GetSessionAddUsedComputeUnits(t)
         \/ blockProviderEpoch(t)
         \/ blockProvider(t)
         \/ RelaySend(t) /\ UNCHANGED serverVars
         \/ OnSessionDone(t)
         \/ OnSessionDoneIncreaseCUOnly(t)
         \/ OnSessionUnUsed(t)
         \/ OnSessionUnUsedDecrease(t)
         \/ \E errorReceived \in RelayErrors :
               OnSessionFailure(t, errorReceived) /\ UNCHANGED serverVars
         \/ OnSessionFailureDecrease(t)
         \/ OnSessionFailureReadUsed(t)
         \/ \E originalProviderAddress \in Addrs, index \in Indexes, sessionEpoch \in Epochs :
               GetDataReliabilitySession(t, originalProviderAddress, index, sessionEpoch)
                  /\ UNCHANGED serverVars
         \/ GetDataReliabilitySessionVerify(t)
         \/ GetDataReliabilitySessionLock(t)
         \/ getDataReliabilitySingleConsumerSession(t)
         \/ GetDataReliabilitySessionRelayNum(t)
         \/ OnDataReliabilitySessionDone(t)
         \/ \E errorReceived \in RelayErrors :
               OnDataReliabilitySessionFailure(t, errorReceived) /\ UNCHANGED serverVars

Spec == Init /\ [][Next]_vars

\* ------------------------------------------------- the releases as an API
\* The release calls take the session as an argument: what they do is a
\* function of the session they are handed.  SpecRelease hands them every
\* session: held or not, block-listed or not, with every count of failures.
\* the sessions, by their id (the audit session charges no CU)
ReleaseSessions(id) ==
    {[RelayNum |-> 1, CuSum |-> cuSum, LatestRelayCu |-> latest,
      ConsecutiveNumberOfFailures |-> failures, BlockListed |-> blockListed,
      lock |-> lock, Seen |-> 0] :
        cuSum \in (IF id = DataReliabilitySessionId THEN {0} ELSE 0..(EntryMaxCU - 1)),
        latest \in (IF id = DataReliabilitySessionId THEN {0} ELSE 0..EntryMaxCU),
        failures \in 0..MaximumNumberOfFailuresAllowedPerConsumerSession,
        blockListed \in BOOLEAN, lock \in BOOLEAN}

\* a manager after UpdateAllProviders, one provider entry of this or of the
\* previous epoch with one session, and a caller with that session in hand
InitRelease ==
    \E pairingList \in PairingLists, epoch \in 1..MaxEpoch, e \in EntryIds,
       id \in {DataReliabilitySessionId, 1} :
      \E consumerSession \in ReleaseSessions(id) :
        /\ e[1] \in {epoch - 1, epoch}
        /\ e[2] \in Range(pairingList)
        /\ consumerSession.CuSum + consumerSession.LatestRelayCu <= EntryMaxCU
        /\ consumerSession.lock = (consumerSession.LatestRelayCu > 0)
           \/ id = DataReliabilitySessionId
        /\ currentEpoch = epoch
        /\ numberOfResets = 0
        /\ pairingAddresses = pairingList
        /\ pairingAddressesLength = Len(pairingList)
        /\ validAddresses = setValidAddressesToDefaultValue(pairingList)
        /\ addedToPurgeAndReport = {}
        /\ pairing = [a \in Range(pairingList) |-> <<epoch, a>>]
        /\ pairingPurge = [a \in (IF epoch > 1 THEN Range(pairingList) ELSE {}) |->
                             <<epoch - 1, a>>]
        /\ csmLock = "free"
        /\ upd = [epoch |-> epoch, list |-> << >>, err |-> "ok"]
        /\ cswp = [x \in EntryIds |->
                     IF x = e
                     THEN [UsedComputeUnits |->
                               consumerSession.CuSum + consumerSession.LatestRelayCu,
                           Sessions |-> [i \in {id} |-> consumerSession]]
                     ELSE NewEntry]
        /\ th = [t \in Workers |->
                   IF t = WorkerOrder[1]
                   THEN [IdleTh("") EXCEPT
                            !.pc = IF id = DataReliabilitySessionId
                                   THEN "heldDataReliability" ELSE "held",
                            !.provider = e[2], !.sessionEpoch = e[1],
                            !.cswp = e, !.slot = id]
                   ELSE IdleTh("")]
        /\ ops = 0
        /\ relay = NoRelay
        /\ aud = NoAudit
        /\ call = NoCall

NextRelease ==
    \E t \in Workers :
         \/ RelaySend(t) /\ UNCHANGED serverVars
         \/ OnSessionDone(t)
         \/ OnSessionDoneIncreaseCUOnly(t)
         \/ OnSessionUnUsed(t)
         \/ OnSessionUnUsedDecrease(t)
         \/ \E errorReceived \in RelayErrors :
               OnSessionFailure(t, errorReceived) /\ UNCHANGED serverVars
         \/ OnSessionFailureDecrease(t)
         \/ OnSessionFailureReadUsed(t)
         \/ OnDataReliabilitySessionDone(t)
         \/ \E errorReceived \in RelayErrors :
               OnDataReliabilitySessionFailure(t, errorReceived) /\ UNCHANGED serverVars
         \/ blockProviderEpoch(t)
         \/ blockProvider(t)

SpecRelease == InitRelease /\ [][NextRelease]_vars

\* ------------------------------------ a provider of block-listed sessions
\* a session after one relay that failed with SessionOutOfSync: OnSessionFailure
\* block-listed and unlocked it, the CU of the relay was given back
BlockListedSession ==
    [RelayNum |-> 1, CuSum |-> 0, LatestRelayCu |-> 0,
     ConsecutiveNumberOfFailures |-> 1, BlockListed |-> TRUE, lock |-> FALSE,
     Seen |-> 1]

\* the manager after one call, UpdateAllProviders(1, pairingList), and relays
\* to one provider that block-listed more of its sessions than a provider may
\* have
InitBlockListed ==
    \E pairingList \in PairingLists, address \in Addrs :
        /\ address \in Range(pairingList)
        /\ currentEpoch = 1
        /\ numberOfResets = 0
        /\ pairingAddresses = pairingList
        /\ pairingAddressesLength = Len(pairingList)
        /\ validAddresses = setValidAddressesToDefaultValue(pairingList)
        /\ addedToPurgeAndReport = {}
        /\ pairing = [a \in Range(pairingList) |-> <<1, a>>]
        /\ pairingPurge = [a \in {} |-> NoEntry]
        /\ csmLock = "free"
        /\ upd = [epoch |-> 1, list |-> << >>, err |-> "ok"]
        /\ cswp = [x \in EntryIds |->
                     IF x = <<1, address>>
                     THEN [UsedComputeUnits |-> 0,
                           Sessions |->
                               [i \in 1..(MaxAllowedBlockListedSessionPerProvider + 1) |->
                                   BlockListedSession]]
                     ELSE NewEntry]
        /\ th = [t \in Workers |-> IdleTh("")]
        /\ ops = 1
        /\ relay = NoRelay
        /\ aud = NoAudit
        /\ call = NoCall

SpecBlockListed == InitBlockListed /\ [][Next]_vars

\* ------------------------------------------- the functions of lavaprotocol
\* spectypes: the requested blocks that are no block height
NOT_APPLICABLE == -1
LATEST_BLOCK == -2
EARLIEST_BLOCK == -3
SAFE_BLOCK == -5
FINALIZED_BLOCK == -6

\* the block heights, the VRF outputs as the numbers GetIndexForVrf reads from
\* them, the providers of a pairing
MaxBlock == 2
MaxVrf == 3
MaxProviders == 3

Blocks == FINALIZED_BLOCK..MaxBlock
VrfNumbers == 0..MaxVrf
ReplyDatas == {"AA", "BB", "CC"}

\* ReplaceRequestedBlock with EARLIEST_BLOCK resolved like LATEST_BLOCK
ReplaceRequestedBlockEarliestAsLatest(requestedBlock, latestBlock) ==
    IF requestedBlock \in {LATEST_BLOCK, SAFE_BLOCK, FINALIZED_BLOCK, EARLIEST_BLOCK}
    THEN latestBlock
    ELSE requestedBlock

\* ReplaceRequestedBlock (434-446)
ReplaceRequestedBlock(requestedBlock, latestBlock) ==
    CASE requestedBlock = LATEST_BLOCK -> latestBlock
      [] requestedBlock = SAFE_BLOCK -> latestBlock
      [] requestedBlock = FINALIZED_BLOCK -> latestBlock
      [] requestedBlock = EARLIEST_BLOCK -> NOT_APPLICABLE
      [] OTHER -> requestedBlock

\* utils.GetIndexForVrf: the index of the provider a VRF output selects, -1
\* when the output is above the threshold
GetIndexForVrf(vrf, providersCount, reliabilityThreshold) ==
    IF vrf <= reliabilityThreshold THEN vrf % providersCount ELSE -1

\* make(map[int64]bool)
NoIndexes == [i \in {} |-> FALSE]

\* the loop of DataReliabilityThresholdToSession (452-460) from vrfIndex on
RECURSIVE DataReliabilityThresholdToSessionFrom(_, _, _, _, _, _)
DataReliabilityThresholdToSessionFrom(vrfs, uniqueIdentifiers, reliabilityThreshold, originalProvidersCount, vrfIndex, indexes) ==
    IF vrfIndex > Len(vrfs) THEN indexes
    ELSE LET index == GetIndexForVrf(vrfs[vrfIndex], originalProvidersCount,
                                     reliabilityThreshold)
         IN DataReliabilityThresholdToSessionFrom(
                vrfs, uniqueIdentifiers, reliabilityThreshold, originalProvidersCount,
                vrfIndex + 1,
                IF index = -1 \/ index \in DOMAIN indexes
                THEN indexes
                ELSE [i \in DOMAIN indexes \cup {index} |->
                         IF i = index THEN uniqueIdentifiers[vrfIndex] ELSE indexes[i]])

\* DataReliabilityThresholdToSession counting the providers of the pairing
\* the manager holds at the time of the call
DataReliabilityThresholdToSessionOfPairing(vrfs, uniqueIdentifiers, reliabilityThreshold, originalProvidersCount) ==
    DataReliabilityThresholdToSessionFrom(vrfs, uniqueIdentifiers, reliabilityThreshold,
                                          pairingAddressesLength + 1, 1, NoIndexes)

\* DataReliabilityThresholdToSession (448-462)
DataReliabilityThresholdToSession(vrfs, uniqueIdentifiers, reliabilityThreshold, originalProvidersCount) ==
    DataReliabilityThresholdToSessionFrom(vrfs, uniqueIdentifiers, reliabilityThreshold,
                                          originalProvidersCount, 1, NoIndexes)

\* compareRelaysFindConflict (537-550): bytes.Compare of the two replies' data
compareRelaysFindConflict(result1, result2) ==
    [conflict |-> result1.Reply.Data # result2.Reply.Data,
     responseConflict |->
        [ConflictRelayData0 |-> [Reply |-> result1.Reply, Request |-> result1.Request],
         ConflictRelayData1 |-> [Reply |-> result2.Reply, Request |-> result2.Request]]]

\* the first loop of VerifyReliabilityResults (507-515) from idx on: a conflict
\* with the original result replaces the conflicts found so far
RECURSIVE VerifyOriginal(_, _, _, _)
VerifyOriginal(originalResult, dataReliabilityResults, idx, conflicts) ==
    IF idx > Len(dataReliabilityResults) THEN conflicts
    ELSE LET now == compareRelaysFindConflict(originalResult, dataReliabilityResults[idx])
         IN VerifyOriginal(originalResult, dataReliabilityResults, idx + 1,
                           IF now.conflict THEN <<now.responseConflict>> ELSE conflicts)

\* the second loop of VerifyReliabilityResults (518-525) from the pair
\* (idx1, idx2) on: a conflict between two audit results is appended
RECURSIVE VerifyPairs(_, _, _, _)
VerifyPairs(dataReliabilityResults, idx1, idx2, conflicts) ==
    IF idx1 > Len(dataReliabilityResults) THEN conflicts
    ELSE IF idx2 > Len(dataReliabilityResults)
    THEN VerifyPairs(dataReliabilityResults, idx1 + 1, idx1 + 2, conflicts)
    ELSE LET responses == compareRelaysFindConflict(dataReliabilityResults[idx1],
                                                    dataReliabilityResults[idx2])
         IN VerifyPairs(dataReliabilityResults, idx1, idx2 + 1,
                        IF responses.conflict
                        THEN Append(conflicts, responses.responseConflict)
                        ELSE conflicts)

\* VerifyReliabilityResults (503-535)
VerifyReliabilityResults(originalResult, dataReliabilityResults, totalNumberOfSessions) ==
    LET first == VerifyOriginal(originalResult, dataReliabilityResults, 1, << >>)
        conflict == \E idx \in DOMAIN dataReliabilityResults :
                       compareRelaysFindConflict(originalResult,
                                                 dataReliabilityResults[idx]).conflict
    IN [conflict |-> conflict,
        conflicts |-> IF conflict
                      THEN VerifyPairs(dataReliabilityResults, 1, 2, first)
                      ELSE first]

\* a relay result with a reply: the request it answers, the reply's data,
\* the provider that sent it
RepliedResult(request, data, providerAddress) ==
    [Request |-> request, Reply |-> [Data |-> data], ProviderAddress |-> providerAddress]

\* the audit results VerifyReliabilityResults is handed: one or two
ReliabilityResults ==
    {<<RepliedResult("audit1", d1, "A")>> : d1 \in ReplyDatas}
    \cup {<<RepliedResult("audit1", d1, "A"), RepliedResult("audit2", d2, "C")>> :
             d1 \in ReplyDatas, d2 \in ReplyDatas}

\* the calls: a function of lavaprotocol and its arguments
Calls ==
    {[pc |-> "ReplaceRequestedBlock", requestedBlock |-> x, latestBlock |-> l] :
        x \in Blocks, l \in Blocks}
    \cup {[pc |-> "DataReliabilityThresholdToSession", vrfs |-> <<v0, v1>>,
           uniqueIdentifiers |-> u, reliabilityThreshold |-> threshold,
           originalProvidersCount |-> n] :
             v0 \in VrfNumbers, v1 \in VrfNumbers,
             u \in {<<FALSE, TRUE>>, <<TRUE, FALSE>>},
             threshold \in VrfNumbers, n \in 1..MaxProviders}
    \cup {[pc |-> "VerifyReliabilityResults",
           originalResult |-> RepliedResult("original", d, "B"),
           dataReliabilityResults |-> results] :
             d \in ReplyDatas, results \in ReliabilityResults}

\* a new manager and one call to make
InitCall ==
    /\ currentEpoch = 0
    /\ numberOfResets = 0
    /\ pairingAddresses = << >>
    /\ pairingAddressesLength = 0
    /\ validAddresses = << >>
    /\ addedToPurgeAndReport = {}
    /\ pairing = [a \in {} |-> NoEntry]
    /\ pairingPurge = [a \in {} |-> NoEntry]
    /\ csmLock = "free"
    /\ upd = [epoch |-> 0, list |-> << >>, err |-> "none"]
    /\ cswp = [e \in EntryIds |-> NewEntry]
    /\ th = [t \in Workers |-> IdleTh("")]
    /\ ops = 0
    /\ relay = NoRelay
    /\ aud = NoAudit
    /\ call \in Calls

\* ReplaceRequestedBlock is applied, then applied to what it returned
CallReplaceRequestedBlock ==
    /\ call.pc = "ReplaceRequestedBlock"
    /\ LET once == ReplaceRequestedBlock(call.requestedBlock, call.latestBlock)
       IN call' = [pc |-> "returned", fn |-> "ReplaceRequestedBlock",
                   requestedBlock |-> call.requestedBlock,
                   latestBlock |-> call.latestBlock,
                   once |-> once,
                   twice |-> ReplaceRequestedBlock(once, call.latestBlock)]
    /\ UNCHANGED <<csmVars, csmLock, upd, cswp, th, ops, relay, aud>>

\* the first run of DataReliabilityThresholdToSession
CallDataReliabilityThresholdToSession ==
    /\ call.pc = "DataReliabilityThresholdToSession"
    /\ call' = [pc |-> "DataReliabilityThresholdToSessionAgain",
                vrfs |-> call.vrfs, uniqueIdentifiers |-> call.uniqueIdentifiers,
                reliabilityThreshold |-> call.reliabilityThreshold,
                originalProvidersCount |-> call.originalProvidersCount,
                indexes |-> DataReliabilityThresholdToSession(
                                call.vrfs, call.uniqueIdentifiers,
                                call.reliabilityThreshold, call.originalProvidersCount)]
    /\ UNCHANGED <<csmVars, csmLock, upd, cswp, th, ops, relay, aud>>

\* a second run on the same arguments, in the state the manager has by then
CallDataReliabilityThresholdToSessionAgain ==
    /\ call.pc = "DataReliabilityThresholdToSessionAgain"
    /\ call' = [pc |-> "returned", fn |-> "DataReliabilityThresholdToSession",
                vrfs |-> call.vrfs, uniqueIdentifiers |-> call.uniqueIdentifiers,
                reliabilityThreshold |-> call.reliabilityThreshold,
                originalProvidersCount |-> call.originalProvidersCount,
                indexes |-> call.indexes,
                again |-> DataReliabilityThresholdToSession(
                              call.vrfs, call.uniqueIdentifiers,
                              call.reliabilityThreshold, call.originalProvidersCount)]
    /\ UNCHANGED <<csmVars, csmLock, upd, cswp, th, ops, relay, aud>>

CallVerifyReliabilityResults ==
    /\ call.pc = "VerifyReliabilityResults"
    /\ LET verified == VerifyReliabilityResults(call.originalResult,
                                                call.dataReliabilityResults,
                                                Len(call.dataReliabilityResults))
       IN call' = [pc |-> "returned", fn |-> "VerifyReliabilityResults",
                   originalResult |-> call.originalResult,
                   dataReliabilityResults |-> call.dataReliabilityResults,
                   conflict |-> verified.conflict,
                   conflicts |-> verified.conflicts]
    /\ UNCHANGED <<csmVars, csmLock, upd, cswp, th, ops, relay, aud>>

NextCall ==
    \/ UpdateAllProviders
    \/ CallReplaceRequestedBlock
    \/ CallDataReliabilityThresholdToSession
    \/ CallDataReliabilityThresholdToSessionAgain
    \/ CallVerifyReliabilityResults

SpecCall == InitCall /\ [][NextCall]_vars

\* ---------------------------------------------- SendRelay of RPCConsumerServer
\* rpcconsumer_server.go 25
MaxRelayRetries == 4

\* the pairing list the server's manager holds, and the addresses in it
ServerPairingList == <<"A", "B", "C">>
ServerAddrs == Range(ServerPairingList)
ServerEntryIds == (1..MaxEpoch) \X ServerAddrs
\* rpccs.requiredResponses
RequiredResponses == {1, 2}
\* the compute units of the request, and the errors its relays can end with
ServerCUs == {1}
ServerRelayErrors == {"Timeout", "SessionOutOfSync", "BlockProvider"}

\* the requested block of the requests and the latest block of the replies
\* SpecRelay draws: a concrete block, which no reply changes
ServerRequestedBlocks == {1}
ServerLatestBlocks == {1}

\* the requested blocks and latest blocks SpecRequestBlock draws
RequestedBlocks == {LATEST_BLOCK, EARLIEST_BLOCK, 1}
LatestBlocks == {1, 2}

\* IsSessionSyncLoss (common.go 39-42): the error carries the code of
\* SessionOutOfSyncError
IsSessionSyncLoss(err) == err = "SessionOutOfSync"

\* a nil *RelayReply, and the reply a provider or the cache gives
NoReply == [nil |-> TRUE]
Reply(data) == [Data |-> data]

\* RelayRequest: the relay session and the epoch it is built for
NoRequest == [RelaySession |-> NoRelaySession, Epoch |-> 0]

\* line 196: &RelayResult{ProviderAddress: providerPublicAddress, Finalized: false}
RelayResult(providerAddress) ==
    [Request |-> NoRequest, Reply |-> NoReply, ReplyServer |-> FALSE,
     ProviderAddress |-> providerAddress, Finalized |-> FALSE]

\* lines 207 and 221: the result of a cache hit; Finalized stays as line 196
\* set it
CachedRelayResult(relayResult, request, reply) ==
    [relayResult EXCEPT !.Request = request, !.Reply = reply]

\* lines 207, 296 and 323: the result of a relay the provider answered
RepliedRelayResult(relayResult, request, reply, finalized) ==
    [relayResult EXCEPT !.Request = request, !.Reply = reply, !.Finalized = finalized]

\* lines 207 and 341: the result of a subscription: a stream, no reply
SubscribedRelayResult(relayResult, request) ==
    [relayResult EXCEPT !.Request = request, !.ReplyServer = TRUE]

\* line 109 with <= for <
RetriesLeftInclusive(retries) == retries <= MaxRelayRetries

\* line 109: the condition of the loop
RetriesLeft(retries) == retries < MaxRelayRetries

\* lines 112-119 with the SyncLoss provider excluded like every other
unwantedProvidersAfterAlways(unwantedProviders, blockOnSyncLoss, relayResult, err) ==
    IF relayResult.ProviderAddress # ""
    THEN unwantedProviders \cup {relayResult.ProviderAddress}
    ELSE unwantedProviders

\* lines 112-119: the exclude set after an attempt that returned relayResult, err
unwantedProvidersAfter(unwantedProviders, blockOnSyncLoss, relayResult, err) ==
    IF relayResult.ProviderAddress # "" /\ ~(blockOnSyncLoss /\ IsSessionSyncLoss(err))
    THEN unwantedProviders \cup {relayResult.ProviderAddress}
    ELSE unwantedProviders

\* lines 112-119: blockOnSyncLoss after the attempt
blockOnSyncLossAfter(blockOnSyncLoss, relayResult, err) ==
    IF relayResult.ProviderAddress # "" /\ blockOnSyncLoss /\ IsSessionSyncLoss(err)
    THEN FALSE
    ELSE blockOnSyncLoss

\* lines 123 and 131: the loop breaks on an empty pairing list and on enough
\* responses
LoopBreaks(relayResults, requiredResponses, err) ==
    \/ err = "PairingListEmpty"
    \/ err = "" /\ Len(relayResults) >= requiredResponses

\* lines 111-134 and 109: the locals of SendRelay after sendRelayToProvider
\* returned relayResult, err with unwantedProviders as GetSession left it.  Of
\* the result of a failed attempt only ProviderAddress is read.
SendRelayAfterAttempt(unwantedProviders, relayResult, err) ==
    LET relayResults == IF err = "" THEN Append(relay.relayResults, relayResult)
                        ELSE relay.relayResults
        relayErrors == IF err # "" THEN Append(relay.relayErrors, err)
                       ELSE relay.relayErrors
        break == LoopBreaks(relayResults, relay.requiredResponses, err)
        retries == IF break THEN relay.retries ELSE relay.retries + 1
    IN [relay EXCEPT
          !.pc = IF break \/ ~RetriesLeft(retries) THEN "afterLoop" ELSE "loop",
          !.unwantedProviders =
              unwantedProvidersAfter(unwantedProviders, relay.blockOnSyncLoss, relayResult, err),
          !.blockOnSyncLoss = blockOnSyncLossAfter(relay.blockOnSyncLoss, relayResult, err),
          !.relayResults = relayResults,
          !.relayErrors = relayErrors,
          !.retries = retries,
          !.worker = "",
          !.relayResult = RelayResult(""),
          !.failed = ""]

\* lines 81-108: ParseMsg, then the locals of the loop.  attempts counts the
\* calls of GetSession; sleeping tells whose failRelaySession is in its
\* time.Sleep(BACKOFF_TIME_ON_FAILURE); failing holds the error of every relay whose
\* failRelaySession has not called OnSessionFailure yet.  requestedBlock is
\* chainMessage.RequestedBlock() and requestBlock the RequestBlock of
\* relayRequestData (line 105), the one RelayData every attempt's request points to
\* (ConstructRelayRequest 417), which makes the assignment of line 135 a copy of the
\* field onto itself.
SendRelay(cu, isSubscription, requiredResponses, parsed, requestedBlock) ==
    /\ relay.pc = "idle"
    /\ relay' = IF ~parsed
                THEN [pc |-> "returned", reply |-> NoReply, replyServer |-> FALSE,
                      err |-> "ParseMsg", errors |-> << >>,
                      attempts |-> 0,
                      requiredResponses |-> requiredResponses, relayResults |-> << >>,
                      launched |-> << >>, failing |-> [t \in Workers |-> ""],
                      sleeping |-> [t \in Workers |-> FALSE]]
                ELSE [pc |-> "loop", cu |-> cu, isSubscription |-> isSubscription,
                      requiredResponses |-> requiredResponses,
                      requestedBlock |-> requestedBlock, requestBlock |-> requestedBlock,
                      unwantedProviders |-> {}, blockOnSyncLoss |-> TRUE,
                      relayResults |-> << >>, relayErrors |-> << >>, retries |-> 0,
                      attempts |-> 0,
                      worker |-> "", relayResult |-> RelayResult(""), failed |-> "",
                      failing |-> [t \in Workers |-> ""],
                      sleeping |-> [t \in Workers |-> FALSE]]
    /\ UNCHANGED <<csmVars, csmLock, upd, cswp, th, ops, aud, call>>

\* lines 110 and 195: sendRelayToProvider calls GetSession with the exclude
\* set
sendRelayToProvider(t) ==
    /\ relay.pc = "loop"
    /\ GetSession(t, relay.cu, relay.unwantedProviders)
    /\ relay' = [relay EXCEPT !.pc = "GetSession", !.worker = t, !.attempts = @ + 1]
    /\ UNCHANGED <<aud, call>>

\* lines 197-199: GetSession returned an error
sendRelayToProviderNoSession ==
    /\ relay.pc = "GetSession"
    /\ th[relay.worker].pc = "idle"
    /\ relay' = SendRelayAfterAttempt(relay.unwantedProviders, RelayResult(""),
                                      th[relay.worker].err)
    /\ ops' = 0
    /\ UNCHANGED <<csmVars, csmLock, upd, cswp, th, aud, call>>

\* what sendRelayToProvider does with the session: ConstructRelayRequest
\* fails, or the relay is a subscription, or the cache has the reply, or the
\* relay goes to the provider
SessionUses(isSubscription) ==
    IF isSubscription THEN {"ConstructRelayRequest", "relaySubscriptionInner"}
    ELSE {"ConstructRelayRequest", "OnSessionUnUsed", "relayInner"}

\* lines 196-224: GetSession returned a session of the provider.  The map it
\* was handed is SendRelay's own: the providers GetSession ignored on its way
\* are in unwantedProviders from here on (no UpdateAllProviders replaces the
\* map during the request).
sendRelayToProviderSession(use) ==
    LET t == relay.worker
        unwantedProviders == th[t].ignored
        relayResult == [RelayResult(th[t].provider) EXCEPT
                          !.Request = [RelaySession |-> ConstructRelaySession(th[t].slot, Sess(t)),
                                       Epoch |-> th[t].sessionEpoch]]
    IN /\ relay.pc = "GetSession"
       /\ th[t].pc = "held"
       /\ use \in SessionUses(relay.isSubscription)
       /\ Set(t, [th[t] EXCEPT !.ignored = {}])
       /\ IF use = "ConstructRelayRequest"
          THEN /\ relay' = SendRelayAfterAttempt(unwantedProviders, RelayResult(th[t].provider),
                                                 "ConstructRelayRequest")
               /\ ops' = 0
          ELSE /\ relay' = [relay EXCEPT
                               !.pc = use,
                               !.unwantedProviders = unwantedProviders,
                               !.relayResult =
                                   IF use = "OnSessionUnUsed"
                                   THEN CachedRelayResult(relayResult, relayResult.Request,
                                                          Reply("AA"))
                                   ELSE relayResult]
               /\ UNCHANGED ops
       /\ UNCHANGED <<csmVars, csmLock, upd, cswp, aud, call>>

\* relayInner 293 and relaySubscriptionInner 328: the request goes out
relaySend ==
    /\ relay.pc \in {"relayInner", "relaySubscriptionInner"}
    /\ th[relay.worker].pc = "held"
    /\ RelaySend(relay.worker)
    /\ UNCHANGED serverVars

\* callRelay 283-289 with backoff for every error
NeedsBackoffAlways(err, deadlineExceeded) == TRUE

\* callRelay 283-289: backoff is asked for when the context of the call ended
\* with DeadlineExceeded
NeedsBackoff(err, deadlineExceeded) == deadlineExceeded

\* lines 236-253: relayInner returned an error, with the deadline of the call
\* exceeded or not (an error of the provider comes before the deadline).
\* failRelaySession releases the session on its own, after its sleep;
\* sendRelayToProvider returns at once.
relayInnerFailed(err, deadlineExceeded) ==
    /\ relay.pc = "relayInner"
    /\ th[relay.worker].pc = "sent"
    /\ deadlineExceeded => err = "Timeout"
    /\ relay' = [SendRelayAfterAttempt(relay.unwantedProviders, relay.relayResult, err)
                    EXCEPT !.failing[relay.worker] = err,
                           !.sleeping[relay.worker] = NeedsBackoff(err, deadlineExceeded)]
    /\ ops' = 0
    /\ UNCHANGED <<csmVars, csmLock, upd, cswp, th, aud, call>>

\* relayInner 296-321: the provider replied, UpdateRequestedBlock (297) wrote the
\* resolved block into the shared RelayData, and then VerifyRelayReply (300),
\* VerifyFinalizationData (309) or UpdateFinalizedHashes (317) failed: an error
\* of no special class, without backoff
relayInnerUnverified(latestBlock) ==
    /\ relay.pc = "relayInner"
    /\ th[relay.worker].pc = "sent"
    /\ relay' = [SendRelayAfterAttempt(relay.unwantedProviders, relay.relayResult, "Timeout")
                    EXCEPT !.requestBlock = ReplaceRequestedBlock(@, latestBlock),
                           !.failing[relay.worker] = "Timeout",
                           !.sleeping[relay.worker] = FALSE]
    /\ ops' = 0
    /\ UNCHANGED <<csmVars, csmLock, upd, cswp, th, aud, call>>

\* line 243: time.Sleep(BACKOFF_TIME_ON_FAILURE) of failRelaySession returns
backoffElapsed(t) ==
    /\ relay.pc # "idle"
    /\ relay.sleeping[t]
    /\ relay' = [relay EXCEPT !.sleeping[t] = FALSE]
    /\ UNCHANGED <<csmVars, csmLock, upd, cswp, th, ops, aud, call>>

\* lines 238-251 of failRelaySession, after the sleep: OnSessionFailure with
\* the relay's error
failRelaySession(t) ==
    /\ relay.pc # "idle"
    /\ relay.failing[t] # ""
    /\ ~relay.sleeping[t]
    /\ OnSessionFailure(t, relay.failing[t])
    /\ relay' = [relay EXCEPT !.failing[t] = ""]
    /\ UNCHANGED <<aud, call>>

\* relayInner 296-323 and line 257: the reply came and was verified;
\* OnSessionDone is next
relayInnerReplied(finalized, latestBlock) ==
    /\ relay.pc = "relayInner"
    /\ th[relay.worker].pc = "sent"
    /\ relay' = [relay EXCEPT !.pc = "OnSessionDone",
                              !.requestBlock = ReplaceRequestedBlock(@, latestBlock),
                              !.relayResult = RepliedRelayResult(@, @.Request, Reply("AA"),
                                                                 finalized)]
    /\ UNCHANGED <<csmVars, csmLock, upd, cswp, th, ops, aud, call>>

\* relaySubscriptionInner 328-336: RelaySubscribe failed, OnSessionFailure is
\* called before the return
relaySubscriptionInnerFailed(err) ==
    /\ relay.pc = "relaySubscriptionInner"
    /\ th[relay.worker].pc = "sent"
    /\ OnSessionFailure(relay.worker, err)
    /\ relay' = [relay EXCEPT !.pc = "OnSessionFailure", !.failed = err]
    /\ UNCHANGED <<aud, call>>

\* relaySubscriptionInner 341-342: the stream is kept;
\* OnSessionDoneIncreaseCUOnly is next
relaySubscriptionInnerReplied ==
    /\ relay.pc = "relaySubscriptionInner"
    /\ th[relay.worker].pc = "sent"
    /\ relay' = [relay EXCEPT !.pc = "OnSessionDoneIncreaseCUOnly",
                              !.relayResult = SubscribedRelayResult(@, @.Request)]
    /\ UNCHANGED <<csmVars, csmLock, upd, cswp, th, ops, aud, call>>

\* the release sendRelayToProvider calls before it returns (222, 257, 342)
sendRelayToProviderRelease ==
    LET t == relay.worker
    IN /\ \/ relay.pc = "OnSessionUnUsed" /\ OnSessionUnUsed(t)
          \/ relay.pc = "OnSessionDone" /\ OnSessionDone(t)
          \/ relay.pc = "OnSessionDoneIncreaseCUOnly" /\ OnSessionDoneIncreaseCUOnly(t)

\* lines 223, 269, 343 and 332-336: sendRelayToProvider returns the result
\* with the error of the release; a failed subscription returns the error of
\* RelaySubscribe unless OnSessionFailure had one of its own
sendRelayToProviderReturn ==
    LET t == relay.worker
        err == IF relay.pc = "OnSessionFailure" /\ th[t].err = "" THEN relay.failed
               ELSE th[t].err
    IN /\ relay.pc \in {"OnSessionUnUsed", "OnSessionDone", "OnSessionDoneIncreaseCUOnly",
                        "OnSessionFailure"}
       /\ th[t].pc = "idle"
       /\ relay' = SendRelayAfterAttempt(relay.unwantedProviders, relay.relayResult, err)
       /\ ops' = 0
       /\ UNCHANGED <<csmVars, csmLock, upd, cswp, th, aud, call>>

\* lines 138-170: an auditor is launched for every result when data
\* reliability is enabled; with no result the collected errors are returned,
\* else the reply of the last result
SendRelayReturn(enabled) ==
    /\ relay.pc = "afterLoop"
    /\ relay' = [pc |-> "returned",
                 reply |-> IF Len(relay.relayResults) = 0 THEN NoReply
                           ELSE relay.relayResults[Len(relay.relayResults)].Reply,
                 replyServer |-> IF Len(relay.relayResults) = 0 THEN FALSE
                                 ELSE relay.relayResults[Len(relay.relayResults)].ReplyServer,
                 err |-> IF Len(relay.relayResults) = 0 THEN "FailedAllRetries" ELSE "",
                 errors |-> IF Len(relay.relayResults) = 0 THEN relay.relayErrors ELSE << >>,
                 attempts |-> relay.attempts,
                 requiredResponses |-> relay.requiredResponses,
                 relayResults |-> relay.relayResults,
                 launched |-> IF enabled THEN relay.relayResults ELSE << >>,
                 failing |-> relay.failing, sleeping |-> relay.sleeping]
    /\ UNCHANGED <<csmVars, csmLock, upd, cswp, th, ops, aud, call>>

\* the manager of a running server: UpdateAllProviders(1, ServerPairingList)
\* was made, no request yet
InitRelay ==
    /\ currentEpoch = 1
    /\ numberOfResets = 0
    /\ pairingAddresses = ServerPairingList
    /\ pairingAddressesLength = Len(ServerPairingList)
    /\ validAddresses = setValidAddressesToDefaultValue(ServerPairingList)
    /\ addedToPurgeAndReport = {}
    /\ pairing = [a \in ServerAddrs |-> <<1, a>>]
    /\ pairingPurge = [a \in {} |-> NoEntry]
    /\ csmLock = "free"
    /\ upd = [epoch |-> 1, list |-> << >>, err |-> "ok"]
    /\ cswp = [x \in ServerEntryIds |-> NewEntry]
    /\ th = [t \in Workers |-> IdleTh("")]
    /\ ops = 0
    /\ relay = NoRelay
    /\ aud = NoAudit
    /\ call = NoCall

NextRelay ==
    \/ \E cu \in ServerCUs, isSubscription \in BOOLEAN, requiredResponses \in RequiredResponses,
          parsed \in BOOLEAN, requestedBlock \in ServerRequestedBlocks :
          SendRelay(cu, isSubscription, requiredResponses, parsed, requestedBlock)
    \/ \E t \in Workers : sendRelayToProvider(t)
    \/ sendRelayToProviderNoSession
    \/ \E use \in {"ConstructRelayRequest", "relaySubscriptionInner", "OnSessionUnUsed",
                   "relayInner"} : sendRelayToProviderSession(use)
    \/ relaySend
    \/ \E err \in ServerRelayErrors, deadlineExceeded \in BOOLEAN :
          relayInnerFailed(err, deadlineExceeded)
    \/ \E t \in Workers : backoffElapsed(t)
    \/ \E t \in Workers : failRelaySession(t)
    \/ \E finalized \in BOOLEAN, latestBlock \in ServerLatestBlocks :
          relayInnerReplied(finalized, latestBlock)
    \/ \E latestBlock \in ServerLatestBlocks : relayInnerUnverified(latestBlock)
    \/ \E err \in ServerRelayErrors : relaySubscriptionInnerFailed(err)
    \/ relaySubscriptionInnerReplied
    \/ sendRelayToProviderRelease
    \/ sendRelayToProviderReturn
    \/ \E enabled \in BOOLEAN : SendRelayReturn(enabled)
    \/ \E t \in Workers :
         \/ resetValidAddresses(t)
         \/ getValidConsumerSessionsWithProvider(t)
         \/ GetSessionInstance(t)
         \/ GetSessionAddUsedComputeUnits(t)
         \/ blockProviderEpoch(t)
         \/ blockProvider(t)
         \/ OnSessionUnUsedDecrease(t)
         \/ OnSessionFailureDecrease(t)
         \/ OnSessionFailureReadUsed(t)

SpecRelay == InitRelay /\ [][NextRelay]_vars

\* The same server with requests of every kind of requested block and replies of
\* two latest blocks, for one kind of relay: one response required, no subscription,
\* no deadline exceeded, no error that blocks the provider by itself.
NextRequestBlock ==
    \/ \E requestedBlock \in RequestedBlocks : SendRelay(1, FALSE, 1, TRUE, requestedBlock)
    \/ \E t \in Workers : sendRelayToProvider(t)
    \/ sendRelayToProviderNoSession
    \/ \E use \in {"OnSessionUnUsed", "relayInner"} : sendRelayToProviderSession(use)
    \/ relaySend
    \/ \E err \in {"Timeout", "SessionOutOfSync"} : relayInnerFailed(err, FALSE)
    \/ \E t \in Workers : failRelaySession(t)
    \/ \E latestBlock \in LatestBlocks : relayInnerReplied(TRUE, latestBlock)
    \/ \E latestBlock \in LatestBlocks : relayInnerUnverified(latestBlock)
    \/ sendRelayToProviderRelease
    \/ sendRelayToProviderReturn
    \/ SendRelayReturn(FALSE)
    \/ \E t \in Workers :
         \/ resetValidAddresses(t)
         \/ getValidConsumerSessionsWithProvider(t)
         \/ GetSessionInstance(t)
         \/ GetSessionAddUsedComputeUnits(t)
         \/ blockProviderEpoch(t)
         \/ blockProvider(t)
         \/ OnSessionUnUsedDecrease(t)
         \/ OnSessionFailureDecrease(t)
         \/ OnSessionFailureReadUsed(t)

SpecRequestBlock == InitRelay /\ [][NextRequestBlock]_vars

\* ------------------------------------- sendDataReliabilityRelayIfApplicable
\* lavaprotocol.SupportedNumberOfVRFs
SupportedNumberOfVRFs == 2

\* dataReliabilityThreshold of the chain parser, as a vrf number
Thresholds == {2}

\* the relay SendRelay got a result of: the session GetSession returned for
\* it, the request built on the session, the session after its release
OriginalCu == 1
OriginalSessionId == 1
OriginalSessionHeld == ReturnedSession(NewSession, OriginalCu)
OriginalRequest ==
    [RelaySession |-> ConstructRelaySession(OriginalSessionId, OriginalSessionHeld),
     Epoch |-> 1]
OriginalSessionSent == [OriginalSessionHeld EXCEPT !.Seen = OriginalSessionHeld.RelayNum]

\* the results SendRelay hands to an auditor (140-149), by the way
\* sendRelayToProvider made them, with the provider's entry they leave
OriginalResults(providerAddress) ==
    {[kind |-> "cache",
      relayResult |-> CachedRelayResult(RelayResult(providerAddress), OriginalRequest,
                                        Reply("AA")),
      entry |-> [UsedComputeUnits |-> 0,
                 Sessions |-> [i \in {OriginalSessionId} |->
                                  OnSessionUnUsedSession(OriginalSessionHeld)]]],
     [kind |-> "subscription",
      relayResult |-> SubscribedRelayResult(RelayResult(providerAddress), OriginalRequest),
      entry |-> [UsedComputeUnits |-> OriginalCu,
                 Sessions |-> [i \in {OriginalSessionId} |->
                                  OnSessionDoneSession(OriginalSessionSent)]]]}
    \cup {[kind |-> "relay",
           relayResult |-> RepliedRelayResult(RelayResult(providerAddress), OriginalRequest,
                                              Reply("AA"), finalized),
           entry |-> [UsedComputeUnits |-> OriginalCu,
                      Sessions |-> [i \in {OriginalSessionId} |->
                                       OnSessionDoneSession(OriginalSessionSent)]]] :
             finalized \in BOOLEAN}

\* lines 361-364 auditing every deterministic result
ApplicableWhenDeterministic(deterministic, finalized) == deterministic

\* lines 361-364: the result is audited
Applicable(deterministic, finalized) == deterministic /\ finalized

\* the locals of an auditor that was handed original: relayResult is the
\* variable its closures capture, failing holds the error of every audit relay
\* whose failRelaySession has not called OnDataReliabilitySessionFailure yet
NewAudit(original, deterministic, vrfs, threshold) ==
    [pc |-> "start", kind |-> original.kind, original |-> original.relayResult,
     relayResult |-> original.relayResult,
     deterministic |-> deterministic, vrfs |-> vrfs, threshold |-> threshold,
     sessionEpoch |-> 0, providerPubAddress |-> "",
     indexesMap |-> NoIndexes, idxExtract |-> -1, worker |-> "",
     dataReliabilitySessions |-> << >>, session |-> 0,
     dataReliabilityVerifications |-> << >>,
     sentRelays |-> 0, conflicts |-> << >>,
     failing |-> [t \in Workers |-> ""], err |-> ""]

\* lines 357-372: the nil check, the policy, the indexes of the two vrfs
sendDataReliabilityRelayIfApplicable ==
    /\ aud.pc = "start"
    /\ aud' = IF aud.relayResult.Reply = NoReply
              THEN [aud EXCEPT !.pc = "returned", !.err = "nil check"]
              ELSE IF ~Applicable(aud.deterministic, aud.relayResult.Finalized)
              THEN [aud EXCEPT !.pc = "returned"]
              ELSE [aud EXCEPT
                      !.pc = "indexesMap",
                      !.sessionEpoch = aud.relayResult.Request.Epoch,
                      !.providerPubAddress = aud.relayResult.ProviderAddress,
                      !.indexesMap = DataReliabilityThresholdToSession(
                                         aud.vrfs, <<FALSE, TRUE>>, aud.threshold,
                                         pairingAddressesLength)]
    /\ UNCHANGED <<csmVars, csmLock, upd, cswp, th, ops, relay, call>>

\* lines 374-376: the next index of the map, in the order the range gives
auditGetDataReliabilitySession(t, idxExtract) ==
    /\ aud.pc = "indexesMap"
    /\ idxExtract \in DOMAIN aud.indexesMap
    /\ GetDataReliabilitySession(t, aud.providerPubAddress, idxExtract, aud.sessionEpoch)
    /\ aud' = [aud EXCEPT !.pc = "GetDataReliabilitySession", !.idxExtract = idxExtract,
                          !.worker = t]
    /\ UNCHANGED <<relay, call>>

\* lines 377-398: GetDataReliabilitySession returned: an epoch mismatch ends
\* the loop, any other error skips the index, a session is appended
auditGotDataReliabilitySession ==
    LET t == aud.worker
        rest == [i \in DOMAIN aud.indexesMap \ {aud.idxExtract} |-> aud.indexesMap[i]]
    IN /\ aud.pc = "GetDataReliabilitySession"
       /\ th[t].pc \in {"idle", "heldDataReliability"}
       /\ aud' = IF th[t].pc = "idle"
                 THEN [aud EXCEPT !.pc = "indexesMap", !.idxExtract = -1, !.worker = "",
                                  !.indexesMap = IF th[t].err = "DataReliabilityEpochMismatch"
                                                 THEN NoIndexes ELSE rest]
                 ELSE [aud EXCEPT !.pc = "indexesMap", !.idxExtract = -1, !.worker = "",
                                  !.indexesMap = rest,
                                  !.dataReliabilitySessions =
                                      Append(@, [worker |-> t,
                                                 Epoch |-> th[t].sessionEpoch,
                                                 ProviderPublicAddress |-> th[t].provider,
                                                 UniqueIdentifier |-> aud.indexesMap[aud.idxExtract]])]
       /\ UNCHANGED <<csmVars, csmLock, upd, cswp, th, ops, relay, call>>

\* lines 439-446: checkReliability with the sessions the loop got
checkReliability ==
    LET numberOfReliabilitySessions == Len(aud.dataReliabilitySessions)
    IN /\ aud.pc = "indexesMap"
       /\ DOMAIN aud.indexesMap = {}
       /\ aud' = IF \/ numberOfReliabilitySessions > SupportedNumberOfVRFs
                    \/ numberOfReliabilitySessions = 0
                 THEN [aud EXCEPT !.pc = "returned"]
                 ELSE [aud EXCEPT !.pc = "sendReliabilityRelay", !.session = 1]
       /\ UNCHANGED <<csmVars, csmLock, upd, cswp, th, ops, relay, call>>

\* lines 401-410: the audit request sendReliabilityRelay builds for a
\* session: the VRF data is made of the request and the reply relayResult
\* holds at the time
ReliabilityRequest(dataReliabilitySession, relayResult, relayNum) ==
    [RelaySession |-> dataReliabilityRelaySession(relayNum),
     Epoch |-> dataReliabilitySession.Epoch,
     DataReliability |-> [Differentiator |-> dataReliabilitySession.UniqueIdentifier,
                          Request |-> relayResult.Request,
                          Reply |-> relayResult.Reply]]

\* lines 449-450 and 401-416: sendReliabilityRelay for the next session.
\* NewVRFData reads the reply of relayResult: without one the process
\* panics.  ConstructDataReliabilityRelayRequest may fail: the closure returns
\* and the session stays locked.  Line 414 assigns the variable the closure
\* captured, relayResult of sendDataReliabilityRelayIfApplicable; the
\* relayResult declared in line 416 is the same object, which relayInner
\* fills.
sendReliabilityRelay(constructed) ==
    LET dataReliabilitySession == aud.dataReliabilitySessions[aud.session]
        t == dataReliabilitySession.worker
    IN /\ aud.pc = "sendReliabilityRelay"
       /\ aud.session <= Len(aud.dataReliabilitySessions)
       /\ IF aud.relayResult.Reply = NoReply
          THEN /\ aud' = [aud EXCEPT !.pc = "panic"]
               /\ UNCHANGED <<cswp, th>>
          ELSE IF ~constructed
          THEN /\ aud' = [aud EXCEPT !.session = @ + 1]
               /\ UNCHANGED <<cswp, th>>
          ELSE /\ RelaySend(t)
               /\ aud' = [aud EXCEPT
                            !.pc = "relayInner",
                            !.worker = t,
                            !.sentRelays = @ + 1,
                            !.relayResult =
                                [RelayResult(dataReliabilitySession.ProviderPublicAddress)
                                   EXCEPT !.Request =
                                       ReliabilityRequest(dataReliabilitySession,
                                                          aud.relayResult,
                                                          Sess(t).RelayNum)]]
       /\ UNCHANGED <<csmVars, csmLock, upd, ops, relay, call>>

\* relayInner 293-321 and lines 417-432: the audit relay failed, before a reply
\* came or on the check of the reply; failRelaySession releases the session,
\* the closure returns nil
reliabilityRelayFailed(err, replied, data) ==
    /\ aud.pc = "relayInner"
    /\ th[aud.worker].pc = "sentDataReliability"
    /\ aud' = [aud EXCEPT !.pc = "sendReliabilityRelay", !.session = @ + 1, !.worker = "",
                          !.failing[aud.worker] = err,
                          !.relayResult = IF replied THEN [@ EXCEPT !.Reply = Reply(data)]
                                          ELSE @]
    /\ UNCHANGED <<csmVars, csmLock, upd, cswp, th, ops, relay, call>>

\* lines 418-428 of failRelaySession: OnDataReliabilitySessionFailure with the
\* relay's error
failReliabilityRelaySession(t) ==
    /\ aud.pc # "idle"
    /\ aud.failing[t] # ""
    /\ OnDataReliabilitySessionFailure(t, aud.failing[t])
    /\ aud' = [aud EXCEPT !.failing[t] = ""]
    /\ UNCHANGED <<relay, call>>

\* relayInner 296-323: the audit reply came and was verified;
\* OnDataReliabilitySessionDone is next (435)
reliabilityRelayReplied(data, finalized) ==
    /\ aud.pc = "relayInner"
    /\ th[aud.worker].pc = "sentDataReliability"
    /\ aud' = [aud EXCEPT !.pc = "OnDataReliabilitySessionDone",
                          !.relayResult = RepliedRelayResult(@, @.Request, Reply(data),
                                                             finalized)]
    /\ UNCHANGED <<csmVars, csmLock, upd, cswp, th, ops, relay, call>>

\* line 435
reliabilityRelayRelease ==
    /\ aud.pc = "OnDataReliabilitySessionDone"
    /\ OnDataReliabilitySessionDone(aud.worker)

\* lines 436 and 451-460: the closure returns the result with the error of
\* OnDataReliabilitySessionDone; a result without error is kept
reliabilityRelayReturn ==
    LET t == aud.worker
        dataReliabilitySession == aud.dataReliabilitySessions[aud.session]
    IN /\ aud.pc = "OnDataReliabilitySessionDone"
       /\ th[t].pc = "idle"
       /\ aud' = [aud EXCEPT
                    !.pc = "sendReliabilityRelay", !.session = @ + 1, !.worker = "",
                    !.dataReliabilityVerifications =
                        IF th[t].err = "" /\ aud.relayResult.Reply # NoReply
                        THEN Append(@, [Reply |-> aud.relayResult.Reply,
                                        Request |-> aud.relayResult.Request,
                                        ProviderAddress |->
                                            dataReliabilitySession.ProviderPublicAddress])
                        ELSE @]
       /\ UNCHANGED <<csmVars, csmLock, upd, cswp, th, ops, relay, call>>

\* lines 464-473: VerifyReliabilityResults is handed relayResult as it is by
\* now; compareRelaysFindConflict reads its reply, without one the process
\* panics; every conflict goes to TxConflictDetection
checkReliabilityVerify ==
    /\ aud.pc = "sendReliabilityRelay"
    /\ aud.session > Len(aud.dataReliabilitySessions)
    /\ aud' = IF Len(aud.dataReliabilityVerifications) = 0
              THEN [aud EXCEPT !.pc = "returned"]
              ELSE IF aud.relayResult.Reply = NoReply
              THEN [aud EXCEPT !.pc = "panic"]
              ELSE LET verified == VerifyReliabilityResults(
                                       aud.relayResult, aud.dataReliabilityVerifications,
                                       Len(aud.dataReliabilitySessions))
                   IN [aud EXCEPT !.pc = "returned",
                                  !.conflicts = IF verified.conflict THEN verified.conflicts
                                                ELSE << >>]
    /\ UNCHANGED <<csmVars, csmLock, upd, cswp, th, ops, relay, call>>

\* the manager of a running server in the epoch of the original relay, and
\* an auditor SendRelay launched for a result of provider "B"
InitAudit ==
    \E original \in OriginalResults("B"), deterministic \in BOOLEAN,
       vrfRes0 \in VrfNumbers, vrfRes1 \in VrfNumbers, threshold \in Thresholds :
        /\ currentEpoch = 1
        /\ numberOfResets = 0
        /\ pairingAddresses = ServerPairingList
        /\ pairingAddressesLength = Len(ServerPairingList)
        /\ validAddresses = setValidAddressesToDefaultValue(ServerPairingList)
        /\ addedToPurgeAndReport = {}
        /\ pairing = [a \in ServerAddrs |-> <<1, a>>]
        /\ pairingPurge = [a \in {} |-> NoEntry]
        /\ csmLock = "free"
        /\ upd = [epoch |-> 1, list |-> << >>, err |-> "ok"]
        /\ cswp = [x \in ServerEntryIds |->
                     IF x = <<1, "B">> THEN original.entry ELSE NewEntry]
        /\ th = [t \in Workers |-> IdleTh("")]
        /\ ops = 1
        /\ relay = NoRelay
        /\ aud = NewAudit(original, deterministic, <<vrfRes0, vrfRes1>>, threshold)
        /\ call = NoCall

NextAudit ==
    \/ UpdateAllProviders
    \/ sendDataReliabilityRelayIfApplicable
    \/ \E t \in Workers, idxExtract \in Indexes : auditGetDataReliabilitySession(t, idxExtract)
    \/ auditGotDataReliabilitySession
    \/ checkReliability
    \/ \E constructed \in BOOLEAN : sendReliabilityRelay(constructed)
    \/ \E err \in ServerRelayErrors, data \in ReplyDatas :
          \/ reliabilityRelayFailed(err, FALSE, "")
          \/ reliabilityRelayFailed(err, TRUE, data)
    \/ \E t \in Workers : failReliabilityRelaySession(t)
    \/ \E data \in ReplyDatas, finalized \in BOOLEAN : reliabilityRelayReplied(data, finalized)
    \/ reliabilityRelayRelease
    \/ reliabilityRelayReturn
    \/ checkReliabilityVerify
    \/ \E t \in Workers :
         \/ GetDataReliabilitySessionVerify(t)
         \/ getDataReliabilitySingleConsumerSession(t)
         \/ GetDataReliabilitySessionRelayNum(t)
         \/ blockProviderEpoch(t)
         \/ blockProvider(t)

SpecAudit == InitAudit /\ [][NextAudit]_vars

\* ------------------------------------------ three pairings of one manager
\* the epochs of the pairings and the entries the pairing lists carry
MaxPurgeEpoch == 3
PurgeEntryIds == (1..MaxPurgeEpoch) \X Addrs

\* UpdateAllProviders (98-125) has installed the pairing of epoch 1 in a new
\* manager: pairingPurge is the empty pairing of NewConsumerSessionManager
InitPurge ==
    /\ currentEpoch = 1
    /\ numberOfResets = 0
    /\ pairingAddresses = <<"A", "B">>
    /\ pairingAddressesLength = 2
    /\ validAddresses = setValidAddressesToDefaultValue(<<"A", "B">>)
    /\ addedToPurgeAndReport = {}
    /\ pairing = [a \in Addrs |-> <<1, a>>]
    /\ pairingPurge = [a \in {} |-> NoEntry]
    /\ csmLock = "free"
    /\ upd = [epoch |-> 1, list |-> << >>, err |-> "ok"]
    /\ cswp = [x \in PurgeEntryIds |-> NewEntry]
    /\ th = [t \in Workers |-> IdleTh("")]
    /\ ops = 0
    /\ relay = NoRelay
    /\ aud = NoAudit
    /\ call = NoCall

\* closePurgedUnusedPairingsConnections (128-139), called at line 114 before the
\* rotation of line 115: the entries whose connections UpdateAllProviders closes
closePurgedUnusedPairingsConnections == Range(pairingPurge)

\* the later pairings, relays that succeed and relays that fail
NextPurge ==
    \/ \E epoch \in 1..MaxPurgeEpoch, pairingList \in PairingLists :
          UpdateAllProvidersBegin(epoch, pairingList)
    \/ UpdateAllProvidersFinish
    \/ \E t \in Workers :
         \/ GetSession(t, 1, {}) /\ UNCHANGED serverVars
         \/ getValidConsumerSessionsWithProvider(t)
         \/ GetSessionInstance(t)
         \/ GetSessionAddUsedComputeUnits(t)
         \/ blockProviderEpoch(t)
         \/ blockProvider(t)
         \/ RelaySend(t) /\ UNCHANGED serverVars
         \/ OnSessionDone(t)
         \/ OnSessionFailure(t, "Timeout") /\ UNCHANGED serverVars
         \/ OnSessionFailureDecrease(t)

SpecPurge == InitPurge /\ [][NextPurge]_vars

\* ------------------------------------------- managers with no valid address
\* the manager as NewConsumerSessionManager made it, or after a GetSession of
\* epoch 1 that found the endpoints of every provider disabled and blocked and
\* reported them all (279-286)
InitReset ==
    \/ Init
    \/ \E pairingList \in PairingLists :
        /\ currentEpoch = 1
        /\ numberOfResets = 0
        /\ pairingAddresses = pairingList
        /\ pairingAddressesLength = Len(pairingList)
        /\ validAddresses = << >>
        /\ addedToPurgeAndReport = Range(pairingList)
        /\ pairing = [a \in Range(pairingList) |-> <<1, a>>]
        /\ pairingPurge = [a \in {} |-> NoEntry]
        /\ csmLock = "free"
        /\ upd = [epoch |-> 1, list |-> << >>, err |-> "ok"]
        /\ cswp = [x \in EntryIds |-> NewEntry]
        /\ th = [t \in Workers |-> IdleTh("")]
        /\ ops = 0
        /\ relay = NoRelay
        /\ aud = NoAudit
        /\ call = NoCall

\* calls of GetSession and of UpdateAllProviders
NextReset ==
    \/ UpdateAllProviders
    \/ \E t \in Workers :
         \/ \E cu \in CUs, unwanted \in UnwantedSets :
               GetSession(t, cu, unwanted) /\ UNCHANGED serverVars
         \/ resetValidAddresses(t)
         \/ getValidConsumerSessionsWithProvider(t)
         \/ GetSessionInstance(t)
         \/ GetSessionAddUsedComputeUnits(t)
         \/ blockProviderEpoch(t)
         \/ blockProvider(t)

SpecReset == InitReset /\ [][NextReset]_vars

\* ------------------------------------------------- the loop of GetSession
\* where a call of GetSession is while it has not returned
GetSessionPcs ==
    {"resetValidAddresses", "getValidConsumerSessionsWithProvider",
     "getConsumerSessionInstanceFromEndpoint", "addUsedComputeUnits",
     "blockProviderEpoch", "blockProvider"}

\* the next step of a call of GetSession (244-350)
GetSessionStep(t) ==
    \/ resetValidAddresses(t)
    \/ getValidConsumerSessionsWithProvider(t)
    \/ GetSessionInstance(t)
    \/ GetSessionAddUsedComputeUnits(t)
    \/ blockProviderEpoch(t)
    \/ blockProvider(t)

\* calls of GetSession with no exclude set, and one more pairing
NextTerminates ==
    \/ \E pairingList \in PairingLists : UpdateAllProvidersBegin(2, pairingList)
    \/ UpdateAllProvidersFinish
    \/ \E t \in Workers :
         \/ \E cu \in CUs : GetSession(t, cu, {}) /\ UNCHANGED serverVars
         \/ resetValidAddresses(t)
         \/ getValidConsumerSessionsWithProvider(t)
         \/ GetSessionInstance(t)
         \/ GetSessionAddUsedComputeUnits(t)
         \/ blockProviderEpoch(t)
         \/ blockProvider(t)

\* Every call runs in a goroutine of its own, which the Go scheduler runs as
\* long as it is not blocked: a call blocks only on csm.lock, which
\* UpdateAllProviders releases when it returns (defer, line 99).
SpecTerminates ==
    /\ InitReset
    /\ [][NextTerminates]_vars
    /\ WF_vars(UpdateAllProvidersFinish)
    /\ \A t \in Workers : WF_vars(GetSessionStep(t))

\* ------------------------------------------------------------- properties
\* a worker is between the return of GetSession or GetDataReliabilitySession
\* and the release of the session it was given
Holds(t) == th[t].pc \in {"held", "sent", "heldDataReliability", "sentDataReliability"}

\* a worker has a session locked: it holds it, or it is inside the acquire that
\* locked it
Owns(t, e, i) ==
    /\ th[t].pc \in {"addUsedComputeUnits", "dataReliabilityRelayNum", "held", "sent",
                     "heldDataReliability", "sentDataReliability"}
    /\ th[t].cswp = e
    /\ th[t].slot = i

\* no call of the manager is in the middle of executing
Quiescent == \A t \in Workers : th[t].pc = "idle" \/ Holds(t)

RECURSIVE SumCu(_, _)
\* CuSum + LatestRelayCu summed over the sessions ids of an entry
SumCu(entry, ids) ==
    IF ids = {} THEN 0
    ELSE LET i == CHOOSE j \in ids : TRUE
         IN entry.Sessions[i].CuSum + entry.Sessions[i].LatestRelayCu
            + SumCu(entry, ids \ {i})

\* C1: in every reachable state every provider entry has
\* UsedComputeUnits <= MaxComputeUnits, whatever the interleaving of GetSession
\* and the releases of its sessions.
C1_UsedWithinMax ==
    \A e \in EntryIds : cswp[e].UsedComputeUnits <= EntryMaxCU

\* two calls passed validateComputeUnits for the same provider, one of them was
\* refused by addUsedComputeUnits and unlocked the session it had opened
C1_Witness ==
    \E e \in EntryIds : \E i \in RegularIds(cswp[e]) :
        /\ cswp[e].UsedComputeUnits = EntryMaxCU
        /\ cswp[e].Sessions[i].RelayNum = 0
        /\ ~cswp[e].Sessions[i].lock

\* C2: between the return of GetSession or GetDataReliabilitySession and the
\* release of the session returned, nobody else is given the same session, and
\* the session stays locked.
C2_MutualExclusion ==
    \A t \in Workers :
        Holds(t) =>
            /\ Sess(t).lock
            /\ \A u \in Workers \ {t} :
                 Holds(u) => <<th[u].cswp, th[u].slot>> # <<th[t].cswp, th[t].slot>>

\* two workers hold sessions of the same provider at once
C2_Witness ==
    \E t, u \in Workers :
        /\ t # u
        /\ Holds(t)
        /\ Holds(u)
        /\ th[t].cswp = th[u].cswp

C4_CuConservation ==
    Quiescent =>
        \A e \in EntryIds :
            cswp[e].UsedComputeUnits = SumCu(cswp[e], RegularIds(cswp[e]))

\* a provider with the CU of a finished relay and of a relay in flight
C4_Witness ==
    /\ Quiescent
    /\ \E e \in EntryIds : \E i, j \in RegularIds(cswp[e]) :
          /\ cswp[e].Sessions[i].CuSum > 0
          /\ cswp[e].Sessions[j].LatestRelayCu > 0

\* C5: every relay request that goes out on a session (regular or audit)
\* carries the RelayNum that follows the one the provider saw last on that
\* session: step 1, no gap, no duplicate.
C5_RelayNumStep ==
    [][\A t \in Workers :
          (th[t].pc \in {"held", "heldDataReliability"}
           /\ th'[t].pc \in {"sent", "sentDataReliability"})
          => Sess(t).RelayNum = Sess(t).Seen + 1]_vars

\* C6: once UpdateAllProviders has returned, a GetSession that returns a
\* session returns the current epoch and an entry of the pairing now
\* installed, also when the call had begun before the update.
C6_AcquireAfterRotation ==
    [][\A t \in Workers :
          (th[t].pc = "addUsedComputeUnits" /\ th'[t].pc = "held" /\ csmLock = "free")
          => /\ th'[t].sessionEpoch = currentEpoch
             /\ th[t].provider \in DOMAIN pairing
             /\ pairing[th[t].provider] = th[t].cswp]_vars

\* C7: UpdateAllProviders with an epoch that is not newer fails and changes
\* nothing of the manager; the epoch only ever grows.
C7_StaleUpdate ==
    [][/\ \A epoch \in Epochs, pairingList \in PairingLists :
            (epoch <= currentEpoch /\ UpdateAllProvidersBegin(epoch, pairingList))
            => (upd'.err = "StaleEpoch" /\ UNCHANGED <<csmVars, csmLock>>)
       /\ currentEpoch' # currentEpoch => currentEpoch' > currentEpoch]_vars

\* an update was refused after one had succeeded
C7_Witness == upd.err = "StaleEpoch" /\ currentEpoch > 0

\* what a holder of csm.lock can see: the pairing of the current epoch
PairingConsistent ==
    /\ \A a \in DOMAIN pairing : pairing[a] = <<currentEpoch, a>>
    /\ DOMAIN pairing = Range(pairingAddresses)
    /\ pairingAddressesLength = Len(pairingAddresses)
    /\ Range(validAddresses) \subseteq DOMAIN pairing
    /\ addedToPurgeAndReport \subseteq DOMAIN pairing
    /\ GetReportedProviders(currentEpoch) \subseteq DOMAIN pairing

\* C8: a successful UpdateAllProviders is one step for whoever takes csm.lock:
\* when it releases the lock the epoch is the new one, pairingPurge is the
\* previous pairing, pairing and pairingAddresses are the new list, every new
\* address is valid, nothing is reported, numberOfResets is 0; with the lock
\* free the epoch is never seen with another epoch's pairing or reports.
C8_AtomicRotation ==
    /\ [](csmLock = "free" => PairingConsistent)
    /\ [][(csmLock = "w" /\ csmLock' = "free") =>
            /\ currentEpoch' = upd.epoch
            /\ pairingPurge' = pairing
            /\ pairingAddresses' = upd.list
            /\ pairing' = [a \in Range(upd.list) |-> <<upd.epoch, a>>]
            /\ Len(validAddresses') = Len(upd.list)
            /\ Range(validAddresses') = Range(upd.list)
            /\ addedToPurgeAndReport' = {}
            /\ numberOfResets' = 0]_vars

\* a second pairing was installed: the first one is in pairingPurge
C8_Witness ==
    /\ upd.err = "ok"
    /\ csmLock = "free"
    /\ DOMAIN pairingPurge # {}
    /\ addedToPurgeAndReport = {}
    /\ Len(validAddresses) = Len(pairingAddresses)

\* C9: blockProvider called with a session epoch that is not the current one
\* leaves validAddresses and addedToPurgeAndReport as they are, also when the
\* epoch changes between its first look at the epoch and its taking the lock.
C9_BlockProviderOtherEpoch ==
    [][\A t \in Workers :
          (/\ th[t].pc \in {"blockProviderEpoch", "blockProvider"}
           /\ th[t].sessionEpoch # currentEpoch
           /\ th'[t] # th[t])
          => UNCHANGED <<validAddresses, addedToPurgeAndReport>>]_vars

\* the epoch changed after blockProvider's first look at it, before its lock
C9_Witness ==
    \E t \in Workers :
        /\ th[t].pc = "blockProvider"
        /\ th[t].sessionEpoch # currentEpoch
        /\ csmLock = "free"

\* C10: a GetSession that returns a session never returns a provider of the
\* exclude set it was called with.
C10_NeverExcluded ==
    \A t \in Workers : th[t].pc = "held" => th[t].provider \notin th[t].unwanted

\* C10, as the code has it: a GetSession that returns a session returns no
\* provider of its exclude set, unless the epoch changed after the call read it
\* (then the session is of a later epoch: the exclude set was dropped with the
\* old pairing).
C10_NeverExcludedSameEpoch ==
    \A t \in Workers :
        (th[t].pc = "held" /\ th[t].sessionEpoch = th[t].startEpoch)
        => th[t].provider \notin th[t].unwanted

\* a call with a non-empty exclude set returned another provider, in the epoch
\* it started in
C10_Witness ==
    \E t \in Workers :
        /\ th[t].pc = "held"
        /\ th[t].unwanted # {}
        /\ th[t].sessionEpoch = th[t].startEpoch
        /\ th[t].provider \notin th[t].unwanted

\* C11: the pick of a provider fails with PairingListEmpty exactly when no valid
\* address is left outside the ignored set; whenever a valid address is not
\* ignored, one is picked, also when the ignored set holds addresses that are
\* not valid (any more).
C11_PairingEmptyExactly ==
    \A t \in Workers :
        (th[t].pc = "getValidConsumerSessionsWithProvider" /\ csmLock = "free") =>
            LET ignored == IF th[t].ignoredEpoch < currentEpoch THEN {} ELSE th[t].ignored
            IN \A r \in RandChoices(ignored) :
                 (getValidProviderAddress(ignored, r).err = "PairingListEmpty")
                 <=> (Range(validAddresses) \ ignored = {})

\* C12: whenever csm.lock is free, every reported address is an address of the
\* pairing that is not valid: no address is reported and valid at once.
C12_ReportedNotValid ==
    csmLock = "free" =>
        addedToPurgeAndReport \subseteq (DOMAIN pairing \ Range(validAddresses))

\* C13: when a successful UpdateAllProviders returns, pairing has as many
\* entries as pairingAddresses has indexes, which is pairingAddressesLength and
\* the length of validAddresses, whatever the pairing list.
C13_IndexAddressCardinality ==
    [][(csmLock = "w" /\ csmLock' = "free") =>
          /\ Cardinality(DOMAIN pairing') = Len(pairingAddresses')
          /\ Len(pairingAddresses') = pairingAddressesLength'
          /\ pairingAddressesLength' = Len(validAddresses')]_vars

\* C14: GetSession(cu) followed by OnSessionUnUsed on the session returned
\* takes from the provider's used CU what GetSession had added to it, leaves the
\* session's CuSum and ConsecutiveNumberOfFailures as they were before the
\* acquire, and leaves LatestRelayCu = 0 and the lock released.
C14_UnusedRestores ==
    [][\A t \in Workers :
          LET e == th[t].cswp
          IN /\ (th[t].pc = "addUsedComputeUnits" /\ th'[t].pc = "held") =>
                   /\ cswp'[e].UsedComputeUnits
                        = cswp[e].UsedComputeUnits + cswp'[e].Sessions[th[t].slot].LatestRelayCu
                   /\ cswp'[e].Sessions[th[t].slot].CuSum = Sess(t).CuSum
                   /\ cswp'[e].Sessions[th[t].slot].ConsecutiveNumberOfFailures
                        = Sess(t).ConsecutiveNumberOfFailures
             /\ (th[t].pc = "held" /\ th'[t].pc = "decreaseUsedComputeUnits") =>
                   /\ th'[t].cuToDecrease = Sess(t).LatestRelayCu
                   /\ cswp'[e].Sessions[th[t].slot].LatestRelayCu = 0
                   /\ ~cswp'[e].Sessions[th[t].slot].lock
                   /\ cswp'[e].Sessions[th[t].slot].CuSum = Sess(t).CuSum
                   /\ cswp'[e].Sessions[th[t].slot].ConsecutiveNumberOfFailures
                        = Sess(t).ConsecutiveNumberOfFailures
                   /\ cswp'[e].UsedComputeUnits = cswp[e].UsedComputeUnits
             /\ (th[t].pc = "decreaseUsedComputeUnits" /\ th'[t].pc = "idle") =>
                   /\ cswp'[e].UsedComputeUnits = cswp[e].UsedComputeUnits - th[t].cuToDecrease
                   /\ cswp'[e].Sessions = cswp[e].Sessions]_vars

\* a session was acquired and released unused, nothing of it went out: with
\* every call over, its provider has no used CU left
C14_Witness ==
    /\ \A t \in Workers : th[t].pc = "idle"
    /\ \E e \in EntryIds : \E i \in RegularIds(cswp[e]) :
          /\ cswp[e].Sessions[i].RelayNum > 0
          /\ cswp[e].Sessions[i].Seen = 0
          /\ ~cswp[e].Sessions[i].lock
          /\ cswp[e].Sessions[i].LatestRelayCu = 0
          /\ cswp[e].UsedComputeUnits = 0

C16_BlockListedOnlyByFailures ==
    [][/\ \A e \in EntryIds : \A i \in DOMAIN cswp'[e].Sessions :
            (/\ cswp'[e].Sessions[i].BlockListed
             /\ ~(i \in DOMAIN cswp[e].Sessions /\ cswp[e].Sessions[i].BlockListed))
            => \E t \in Workers, errorReceived \in RelayErrors :
                  /\ th[t].cswp = e
                  /\ th[t].slot = i
                  /\ \/ OnSessionFailure(t, errorReceived)
                     \/ OnDataReliabilitySessionFailure(t, errorReceived)
                  /\ cswp'[e].Sessions[i].ConsecutiveNumberOfFailures
                       = cswp[e].Sessions[i].ConsecutiveNumberOfFailures + 1
                  /\ \/ errorReceived = "SessionOutOfSync"
                     \/ cswp'[e].Sessions[i].ConsecutiveNumberOfFailures
                          > MaximumNumberOfFailuresAllowedPerConsumerSession
       /\ \A t \in Workers :
            /\ (/\ Holds(t)
                /\ Sess(t).lock
                /\ \/ OnSessionDone(t)
                   \/ OnSessionDoneIncreaseCUOnly(t)
                   \/ OnDataReliabilitySessionDone(t))
               => cswp'[th[t].cswp].Sessions[th[t].slot].ConsecutiveNumberOfFailures = 0
            /\ (/\ Holds(t)
                /\ Sess(t).lock
                /\ ~Sess(t).BlockListed
                /\ Sess(t).ConsecutiveNumberOfFailures = 0
                /\ OnSessionFailure(t, "Timeout"))
               => /\ cswp'[th[t].cswp].Sessions[th[t].slot].ConsecutiveNumberOfFailures = 1
                  /\ ~cswp'[th[t].cswp].Sessions[th[t].slot].BlockListed]_vars

\* a session that had failed the maximum number of times failed once more, with
\* an error other than SessionOutOfSync, and is block-listed
C16_Witness ==
    \E t \in Workers :
        /\ th[t].pc = "failureDecrease"
        /\ th[t].blockListed
        /\ Sess(t).BlockListed
        /\ Sess(t).ConsecutiveNumberOfFailures
             = MaximumNumberOfFailuresAllowedPerConsumerSession + 1

\* C17: every release call (OnSessionDone, OnSessionFailure, OnSessionUnUsed,
\* OnSessionDoneIncreaseCUOnly, OnDataReliabilitySessionDone,
\* OnDataReliabilitySessionFailure) made on a session nobody holds returns
\* LockMisUseDetected and leaves the session, its lock and the provider's used
\* CU as they are.
C17_ReleaseOfUnheld ==
    [][\A t \in Workers :
          (/\ th[t].pc \in {"held", "sent", "sentDataReliability"}
           /\ ~Sess(t).lock
           /\ \/ OnSessionDone(t)
              \/ OnSessionDoneIncreaseCUOnly(t)
              \/ OnSessionUnUsed(t)
              \/ \E errorReceived \in RelayErrors : OnSessionFailure(t, errorReceived)
              \/ OnDataReliabilitySessionDone(t)
              \/ \E errorReceived \in RelayErrors :
                    OnDataReliabilitySessionFailure(t, errorReceived))
          => /\ th'[t].pc = "idle"
             /\ th'[t].err = "LockMisUseDetected"
             /\ cswp' = cswp]_vars

\* a release was called on a session nobody held and returned the error
C17_Witness ==
    \E t \in Workers, e \in EntryIds :
        /\ th[t].pc = "idle"
        /\ th[t].err = "LockMisUseDetected"
        /\ \E i \in DOMAIN cswp[e].Sessions : ~cswp[e].Sessions[i].lock

\* C18: GetDataReliabilitySession with a session epoch that is not the current
\* epoch returns DataReliabilityEpochMismatch for every index and takes no
\* session.
C18_StaleEpochIsEpochMismatch ==
    [][\A t \in Workers, originalProviderAddress \in Addrs, index \in Indexes,
          sessionEpoch \in Epochs :
          (/\ sessionEpoch # currentEpoch
           /\ GetDataReliabilitySession(t, originalProviderAddress, index, sessionEpoch))
          => /\ th'[t].pc = "idle"
             /\ th'[t].err = "DataReliabilityEpochMismatch"
             /\ cswp' = cswp]_vars

\* C18, as the code has it: GetDataReliabilitySession with a session epoch that
\* is not the current epoch takes no session and returns an error: that of the
\* index when the index is out of range or is the original provider's, which
\* are looked at first, and DataReliabilityEpochMismatch otherwise.
C18_StaleEpochRejected ==
    [][\A t \in Workers, originalProviderAddress \in Addrs, index \in Indexes,
          sessionEpoch \in Epochs :
          (/\ sessionEpoch # currentEpoch
           /\ GetDataReliabilitySession(t, originalProviderAddress, index, sessionEpoch))
          => /\ th'[t].pc = "idle"
             /\ cswp' = cswp
             /\ th'[t].err =
                  IF index >= Len(pairingAddresses)
                  THEN "DataReliabilityIndexOutOfRange"
                  ELSE IF pairingAddresses[index + 1] = originalProviderAddress
                  THEN "DataReliabilityIndexRequestedIsOriginalProvider"
                  ELSE "DataReliabilityEpochMismatch"]_vars

\* an audit of a relay of another epoch was refused for its epoch
C18_Witness ==
    \E t \in Workers :
        /\ th[t].pc = "idle"
        /\ th[t].err = "DataReliabilityEpochMismatch"
        /\ currentEpoch > 0

\* the calls of GetDataReliabilitySession that have picked their provider
InDataReliability(t) ==
    th[t].pc \in {"verifyDataReliabilitySessionWasNotAlreadyCreated", "dataReliabilityLock",
                  "getDataReliabilitySingleConsumerSession", "dataReliabilityRelayNum",
                  "heldDataReliability"}

\* C19: GetDataReliabilitySession never picks or returns a session of the
\* original provider: an index whose address is the original provider's is
\* refused with DataReliabilityIndexRequestedIsOriginalProvider, an index that
\* is not below the number of pairing addresses with
\* DataReliabilityIndexOutOfRange, both without locking a session or changing a
\* RelayNum.
C19_NeverOriginalProvider ==
    /\ [](\A t \in Workers :
            InDataReliability(t) =>
                /\ th[t].provider # th[t].originalProviderAddress
                /\ th[t].cswp[2] # th[t].originalProviderAddress)
    /\ [][\A t \in Workers, originalProviderAddress \in Addrs, index \in Indexes,
             sessionEpoch \in Epochs :
             GetDataReliabilitySession(t, originalProviderAddress, index, sessionEpoch)
             => /\ index >= Len(pairingAddresses)
                   => /\ th'[t].pc = "idle"
                      /\ th'[t].err = "DataReliabilityIndexOutOfRange"
                      /\ cswp' = cswp
                /\ (/\ index < Len(pairingAddresses)
                    /\ pairingAddresses[index + 1] = originalProviderAddress)
                   => /\ th'[t].pc = "idle"
                      /\ th'[t].err = "DataReliabilityIndexRequestedIsOriginalProvider"
                      /\ cswp' = cswp]_vars

\* an audit session was returned for a relay whose provider is in the pairing
C19_Witness ==
    \E t \in Workers :
        /\ th[t].pc = "heldDataReliability"
        /\ th[t].originalProviderAddress \in Range(pairingAddresses)
        /\ Sess(t).lock
        /\ th[t].provider # th[t].originalProviderAddress

\* C20: in one epoch a provider's audit session is handed out once: a
\* GetDataReliabilitySession that returns the session returns one on which no
\* audit relay went out before.
C20_OneAuditPerEpoch ==
    [][\A t \in Workers :
          (th[t].pc = "dataReliabilityRelayNum" /\ th'[t].pc = "heldDataReliability")
          => Sess(t).Seen = 0]_vars

\* C21: audit relays charge no compute units: no step of
\* GetDataReliabilitySession, OnDataReliabilitySessionDone or
\* OnDataReliabilitySessionFailure changes the UsedComputeUnits of a provider
\* or the CuSum of an audit session, an audit session is created with CuSum 0,
\* and the relay session of an audit relay carries SessionId 0 and CuSum 0.
C21_AuditChargesNothing ==
    /\ [](\A t \in Workers :
            th[t].pc = "sentDataReliability" =>
                /\ th[t].relaySession.SessionId = 0
                /\ th[t].relaySession.CuSum = 0)
    /\ [][\A t \in Workers :
             (/\ th'[t] # th[t]
              /\ \/ InDataReliability(t)
                 \/ th[t].pc = "sentDataReliability"
                 \/ InDataReliability(t)')
             => \A e \in EntryIds :
                   /\ cswp'[e].UsedComputeUnits = cswp[e].UsedComputeUnits
                   /\ DataReliabilitySessionId \in DOMAIN cswp'[e].Sessions
                      => cswp'[e].Sessions[DataReliabilitySessionId].CuSum =
                           IF DataReliabilitySessionId \in DOMAIN cswp[e].Sessions
                           THEN cswp[e].Sessions[DataReliabilitySessionId].CuSum
                           ELSE 0]_vars

\* an audit relay to a provider that has been charged for a regular relay was
\* released with OnDataReliabilitySessionDone
C21_Witness ==
    \E e \in EntryIds :
        /\ cswp[e].UsedComputeUnits > 0
        /\ DataReliabilitySessionId \in DOMAIN cswp[e].Sessions
        /\ cswp[e].Sessions[DataReliabilitySessionId].Seen = DataReliabilityRelayNumber
        /\ cswp[e].Sessions[DataReliabilitySessionId].RelayNum = DataReliabilityRelayNumber
        /\ ~cswp[e].Sessions[DataReliabilitySessionId].lock

C24_ConflictPerDifference ==
    (call.pc = "returned" /\ call.fn = "VerifyReliabilityResults")
    => LET results == call.dataReliabilityResults
           fromOriginal == {idx \in DOMAIN results :
                               results[idx].Reply.Data # call.originalResult.Reply.Data}
           betweenAudits == {p \in (DOMAIN results) \X (DOMAIN results) :
                                /\ p[1] < p[2]
                                /\ results[p[1]].Reply.Data # results[p[2]].Reply.Data}
       IN Len(call.conflicts) = Cardinality(fromOriginal) + Cardinality(betweenAudits)

\* C28: ReplaceRequestedBlock(x, L) is L for LATEST_BLOCK, SAFE_BLOCK and
\* FINALIZED_BLOCK, NOT_APPLICABLE for EARLIEST_BLOCK and x for every other x,
\* and applying it to its own result with the same L changes nothing.
C28_ReplaceRequestedBlock ==
    (call.pc = "returned" /\ call.fn = "ReplaceRequestedBlock")
    => /\ call.requestedBlock \in {LATEST_BLOCK, SAFE_BLOCK, FINALIZED_BLOCK}
          => call.once = call.latestBlock
       /\ call.requestedBlock = EARLIEST_BLOCK => call.once = NOT_APPLICABLE
       /\ call.requestedBlock \notin {LATEST_BLOCK, SAFE_BLOCK, FINALIZED_BLOCK,
                                      EARLIEST_BLOCK}
          => call.once = call.requestedBlock
       /\ call.twice = call.once

\* C28 with a latest block that is a block height: then the second
\* application changes nothing.
C28_ReplaceRequestedBlockOfHeight ==
    (call.pc = "returned" /\ call.fn = "ReplaceRequestedBlock")
    => /\ call.requestedBlock \in {LATEST_BLOCK, SAFE_BLOCK, FINALIZED_BLOCK}
          => call.once = call.latestBlock
       /\ call.requestedBlock = EARLIEST_BLOCK => call.once = NOT_APPLICABLE
       /\ call.requestedBlock \notin {LATEST_BLOCK, SAFE_BLOCK, FINALIZED_BLOCK,
                                      EARLIEST_BLOCK}
          => call.once = call.requestedBlock
       /\ call.latestBlock >= 0 => call.twice = call.once

\* LATEST_BLOCK was replaced by a block height, twice
C28_Witness ==
    /\ call.pc = "returned"
    /\ call.fn = "ReplaceRequestedBlock"
    /\ call.requestedBlock = LATEST_BLOCK
    /\ call.latestBlock > 0
    /\ call.twice = call.latestBlock

\* C29: when the two VRF outputs select the same index, the map
\* DataReliabilityThresholdToSession returns for the differentiators
\* (false, true) has that index alone, with the differentiator true.
C29_SameIndexKeepsTrue ==
    (/\ call.pc = "returned"
     /\ call.fn = "DataReliabilityThresholdToSession"
     /\ call.uniqueIdentifiers = <<FALSE, TRUE>>
     /\ GetIndexForVrf(call.vrfs[1], call.originalProvidersCount,
                       call.reliabilityThreshold) # -1
     /\ GetIndexForVrf(call.vrfs[1], call.originalProvidersCount,
                       call.reliabilityThreshold)
        = GetIndexForVrf(call.vrfs[2], call.originalProvidersCount,
                         call.reliabilityThreshold))
    => /\ Cardinality(DOMAIN call.indexes) = 1
       /\ \A i \in DOMAIN call.indexes : call.indexes[i] = TRUE

\* C27: the EpochMismatch of blockProvider never reaches the caller of
\* GetSession, OnSessionFailure or OnDataReliabilitySessionFailure: no call
\* returns it.
C27_EpochMismatchNotSurfaced ==
    \A t \in Workers : th[t].pc = "idle" => th[t].err # "EpochMismatch"

\* SendRelay is inside its loop or inside an attempt
InLoop ==
    relay.pc \in {"loop", "GetSession", "relayInner", "relaySubscriptionInner",
                  "OnSessionUnUsed", "OnSessionDone", "OnSessionDoneIncreaseCUOnly",
                  "OnSessionFailure"}

\* SendRelay went through its loop
WentThroughLoop == InLoop \/ relay.pc = "afterLoop" \/ (relay.pc = "returned" /\ relay.err # "ParseMsg")

\* C26: for every client request SendRelay calls GetSession at most 4 times;
\* it starts no further attempt once an attempt returned PairingListEmpty or
\* the successful results reached requiredResponses, and leaves the loop
\* before the fourth attempt for no other reason; it returns the reply (or the
\* reply stream) of a successful attempt if there is one, and otherwise the
\* error of the failed retries with the errors of all its attempts.
C26_BoundedRetries ==
    /\ [](/\ WentThroughLoop => relay.attempts <= 4
          /\ InLoop =>
               /\ Len(relay.relayResults) < relay.requiredResponses
               /\ \A i \in DOMAIN relay.relayErrors : relay.relayErrors[i] # "PairingListEmpty"
          /\ relay.pc = "afterLoop" =>
               \/ relay.attempts = 4
               \/ Len(relay.relayResults) >= relay.requiredResponses
               \/ /\ relay.relayErrors # << >>
                  /\ relay.relayErrors[Len(relay.relayErrors)] = "PairingListEmpty")
    /\ [][relay.pc = "afterLoop" /\ relay'.pc = "returned" =>
            IF Len(relay.relayResults) >= 1
            THEN /\ relay'.err = ""
                 /\ relay'.reply = relay.relayResults[Len(relay.relayResults)].Reply
                 /\ relay'.replyServer = relay.relayResults[Len(relay.relayResults)].ReplyServer
                 /\ relay'.reply # NoReply \/ relay'.replyServer
            ELSE /\ relay'.err = "FailedAllRetries"
                 /\ relay'.reply = NoReply
                 /\ relay'.errors = relay.relayErrors
                 /\ Len(relay.relayErrors) = relay.attempts]_vars

\* four attempts failed at a provider and SendRelay returned their errors
C26_Witness ==
    /\ relay.pc = "returned"
    /\ relay.attempts = 4
    /\ relay.err = "FailedAllRetries"
    /\ Len(relay.errors) = 4
    /\ \A i \in 1..4 : relay.errors[i] # "PairingListEmpty"

\* the provider of the attempt that is returning, and the exclude set
\* GetSession left to it
AttemptProvider ==
    IF relay.pc = "GetSession" THEN th[relay.worker].provider
    ELSE relay.relayResult.ProviderAddress

AttemptUnwantedProviders ==
    IF relay.pc = "GetSession" /\ th[relay.worker].pc = "held" THEN th[relay.worker].ignored
    ELSE relay.unwantedProviders

\* this step records a failed attempt
FailedAttemptStep ==
    /\ InLoop
    /\ relay.pc # "loop"
    /\ relay'.pc \in {"loop", "afterLoop"}
    /\ Len(relay'.relayErrors) = Len(relay.relayErrors) + 1

C22_AuditOnlyFinalizedDeterministic ==
    /\ (aud.pc # "idle" /\ ~(aud.deterministic /\ aud.original.Finalized)) =>
          /\ aud.pc \in {"start", "returned"}
          /\ aud.dataReliabilitySessions = << >>
          /\ aud.sentRelays = 0
          /\ aud.conflicts = << >>
          /\ \A t \in Workers : th[t].pc = "idle"
          /\ \A e \in DOMAIN cswp : DataReliabilitySessionId \notin DOMAIN cswp[e].Sessions
    /\ (aud.pc # "idle" /\ aud.kind = "cache") => ~aud.original.Finalized

\* the auditor returned on a result of a deterministic category that is not
\* finalized, whose vrfs point at two other providers
C22_Witness ==
    /\ aud.pc = "returned"
    /\ aud.kind = "relay"
    /\ aud.deterministic
    /\ ~aud.original.Finalized
    /\ aud.vrfs = <<0, 2>>

\* C25: when exactly one audit relay succeeded and its reply data differs from
\* the data of the original reply, the auditor hands exactly one
\* ResponseConflict to TxConflictDetection: relayData0 is the request and the
\* reply of the result the auditor was handed, relayData1 those of the audit.
C25_OneAuditOneConflict ==
    (/\ aud.pc = "returned"
     /\ Len(aud.dataReliabilityVerifications) = 1
     /\ aud.dataReliabilityVerifications[1].Reply.Data # aud.original.Reply.Data)
    => aud.conflicts =
          <<[ConflictRelayData0 |-> [Reply |-> aud.original.Reply,
                                     Request |-> aud.original.Request],
             ConflictRelayData1 |-> [Reply |-> aud.dataReliabilityVerifications[1].Reply,
                                     Request |-> aud.dataReliabilityVerifications[1].Request]]>>

\* C31: a relay that failed on its deadline is released by OnSessionFailure
\* only after the sleep of failRelaySession ended, and once: while it sleeps
\* the session stays locked in the hands of the failed relay alone, with its
\* CU in the provider's used CU; SendRelay goes on at once, the provider
\* excluded.  A relay that failed otherwise is released without a sleep.
C31_BackoffBeforeRelease ==
    /\ [](\A t \in Workers :
            (relay.pc # "idle" /\ relay.sleeping[t]) =>
                /\ relay.failing[t] = "Timeout"
                /\ th[t].pc = "sent"
                /\ Sess(t).lock
                /\ Sess(t).LatestRelayCu \in ServerCUs
                /\ cswp[th[t].cswp].UsedComputeUnits >= Sess(t).LatestRelayCu
                /\ \A u \in Workers \ {t} :
                      ~(th[u].cswp = th[t].cswp /\ th[u].slot = th[t].slot))
    /\ [][/\ relayInnerFailed("Timeout", TRUE) =>
                /\ relay'.sleeping[relay.worker]
                /\ relay'.pc \in {"loop", "afterLoop"}
                /\ relay.relayResult.ProviderAddress \in relay'.unwantedProviders
                /\ th' = th /\ cswp' = cswp
          /\ \A err \in ServerRelayErrors :
                relayInnerFailed(err, FALSE) =>
                    /\ ~relay'.sleeping[relay.worker]
                    /\ relay'.failing[relay.worker] = err
          /\ \A t \in Workers :
                (/\ relay.pc \notin {"idle", "relaySubscriptionInner"}
                 /\ th[t].pc = "sent" /\ th'[t].pc # "sent") =>
                    \/ /\ relay.failing[t] # ""
                       /\ ~relay.sleeping[t]
                       /\ OnSessionFailure(t, relay.failing[t])
                       /\ relay'.failing[t] = ""
                    \/ /\ relay.failing[t] = ""
                       /\ relay.worker = t]_vars

\* a relay sleeps in its backoff and SendRelay is in the GetSession of its
\* next attempt
C31_Witness ==
    /\ relay.pc = "GetSession"
    /\ relay.worker = "w2"
    /\ relay.sleeping["w1"]
    /\ th["w1"].provider \in relay.unwantedProviders

\* C32: for a subscription SendRelay makes one attempt only, on one session;
\* the release of a subscription that succeeded, OnSessionDoneIncreaseCUOnly,
\* leaves the CuSum of the session as it was.  (That no audit session is got
\* for the result of a subscription is part of C22.)
C32_SubscriptionOnce ==
    /\ []((InLoop \/ relay.pc = "afterLoop") /\ relay.isSubscription => relay.attempts <= 1)
    /\ [][(/\ relay.pc = "OnSessionDoneIncreaseCUOnly"
           /\ OnSessionDoneIncreaseCUOnly(relay.worker)
           /\ th'[relay.worker].err = "")
          => cswp'[th[relay.worker].cswp].Sessions[th[relay.worker].slot].CuSum
                = Sess(relay.worker).CuSum]_vars

\* C33: within one client request the requestBlock an attempt sends is the
\* block the client requested as long as no attempt has produced a successful
\* result, and once there is a successful result the requestBlock changes no
\* more; a failed attempt, or a reply that fails verification, changes nothing.
C33_RequestBlockPinned ==
    /\ [][relaySend /\ relay.relayResults = << >>
          => relay.requestBlock = relay.requestedBlock]_vars
    /\ [][InLoop /\ InLoop' /\ relay.relayResults # << >>
          => relay'.requestBlock = relay.requestBlock]_vars

\* C34: the connections UpdateAllProviders closes are those of the pairing
\* installed two successful updates before, never those of the pairing it
\* replaces or of the one it installs, and when it closes them no worker holds
\* a session of a provider of that pairing.
C34_TwoEpochGrace ==
    [][UpdateAllProvidersFinish
       => \A e \in closePurgedUnusedPairingsConnections :
             /\ \A a \in DOMAIN pairing : e[1] < pairing[a][1] /\ pairing[a][1] < upd.epoch
             /\ \A t \in Workers : ~(Holds(t) /\ th[t].cswp = e)]_vars

\* C35: the auditor never holds the locks of two sessions at a time (a session
\* handed to failReliabilityRelaySession is no longer its own), and it does not
\* enter GetDataReliabilitySession, which takes the lock of the manager and the
\* lock of a provider's entry, while it holds the lock of a session.
C35_LockDiscipline ==
    /\ [](aud.pc \notin {"idle", "returned"}
           => Cardinality({t \in Workers : Holds(t) /\ aud.failing[t] = ""}) <= 1)
    /\ [][\A t \in Workers, idxExtract \in Indexes :
             auditGetDataReliabilitySession(t, idxExtract)
                => \A u \in Workers : ~(Holds(u) /\ aud.failing[u] = "")]_vars

\* C36: every session an attempt of SendRelay got is released: once SendRelay
\* has returned and no failRelaySession is left to run, no session is held.
C36_EverySessionReleased ==
    (relay.pc = "returned" /\ \A t \in Workers : relay.failing[t] = "")
       => \A t \in Workers : ~Holds(t)

\* a failure report that block-listed its session reads the used CU of the provider
FailureReadsUsed(t) == th[t].pc = "atomicReadUsedComputeUnits" /\ OnSessionFailureReadUsed(t)

\* what the read decides: with no used CU left the provider is handed to
\* blockProvider with the report flag whatever the class of the error, and
\* otherwise it is handed to blockProvider exactly when the class of the error
\* asks for it, with the flag of that class
FailureDecidesByUsedCU ==
    [][\A t \in Workers :
         FailureReadsUsed(t)
         => IF cswp[th[t].cswp].UsedComputeUnits = 0
            THEN /\ th'[t].pc = "blockProviderEpoch"
                 /\ th'[t].reportProvider
                 /\ th'[t].provider = th[t].cswp[2]
                 /\ th'[t].sessionEpoch = th[t].cswp[1]
            ELSE /\ (th'[t].pc = "blockProviderEpoch") = th[t].block
                 /\ th'[t].pc # "blockProviderEpoch" => th'[t].pc = "idle"
                 /\ th'[t].reportProvider = (th[t].block /\ th[t].reportProvider)]_vars

\* blockProvider is at its update for a failure report
FailureBlocksProvider(t) ==
    th[t].pc = "blockProvider" /\ th[t].caller = "OnSessionFailure" /\ blockProvider(t)

\* the address is listed in validAddresses at most once
ListedOnce(address) ==
    Cardinality({i \in DOMAIN validAddresses : validAddresses[i] = address}) <= 1

Resets(t) == th[t].pc = "resetValidAddresses" /\ resetValidAddresses(t)

\* numberOfResets changes by a reset that finds validAddresses empty, by one,
\* and by UpdateAllProviders, to 0; a reset that finds validAddresses empty
\* installs the addresses of the pairing, one that finds an address changes
\* nothing
ResetsCounted ==
    /\ [][numberOfResets' # numberOfResets
          => \/ \E t \in Workers : Resets(t) /\ Len(validAddresses) = 0
             \/ UpdateAllProvidersFinish /\ numberOfResets' = 0]_vars
    /\ [][\A t \in Workers :
             Resets(t)
             => IF Len(validAddresses) = 0
                THEN /\ validAddresses' = pairingAddresses
                     /\ numberOfResets' = numberOfResets + 1
                ELSE UNCHANGED <<validAddresses, numberOfResets>>]_vars

\* C38 as stated: resets are counted as above, and one emptying is counted once
\* even by concurrent calls: the reset that counts leaves an address in
\* validAddresses, so that the calls that saw the same empty list find it and
\* count nothing.
C38_OneResetPerEmptying ==
    /\ ResetsCounted
    /\ [][\A t \in Workers :
             Resets(t) /\ Len(validAddresses) = 0 => Len(validAddresses') > 0]_vars

\* C38, amended: the same count, once for an emptying when the pairing has an
\* address; with an empty pairing every reset finds validAddresses empty and
\* counts.
C38_OneResetPerEmptyingOfPairing ==
    /\ ResetsCounted
    /\ [][\A t \in Workers :
             Resets(t) /\ Len(validAddresses) = 0
             => (Len(validAddresses') > 0) = (pairingAddressesLength > 0)]_vars

\* two calls saw validAddresses empty; one has reset and counted, the other is
\* about to take the write lock and finds the addresses of the pairing
C38_Witness ==
    \E t \in Workers :
       /\ th[t].pc = "resetValidAddresses"
       /\ numberOfResets = 1
       /\ Len(validAddresses) > 0
       /\ validAddresses = pairingAddresses
       /\ upd.epoch = currentEpoch /\ csmLock = "free"

\* C39: when GetSession returns a session to sendRelayToProvider, the exclude
\* set it was handed holds the addresses it held at the call: the providers
\* GetSession skipped on its way are not in it.
C39_ExcludeSetUntouched ==
    (relay.pc = "GetSession" /\ th[relay.worker].pc = "held")
       => th[relay.worker].ignored = relay.unwantedProviders

\* a call of GetSession that has started returns, or ends the process in
\* LavaFormatFatal
GetSessionEnds ==
    \A t \in Workers : (th[t].pc \in GetSessionPcs) ~> (th[t].pc \in {"idle", "held", "fatal"})

\* this step ends an iteration of the loop of GetSession with a continue
Continues(t) ==
    /\ th[t].pc \in {"getValidConsumerSessionsWithProvider",
                      "getConsumerSessionInstanceFromEndpoint", "addUsedComputeUnits",
                      "blockProvider"}
    /\ th'[t].pc = "getValidConsumerSessionsWithProvider"
    /\ th'[t] # th[t]

\* no rotation touches the iteration that this step ends
SameEpoch(t) ==
    /\ currentEpoch' = currentEpoch
    /\ th[t].ignoredEpoch = currentEpoch
    /\ th[t].pc = "blockProvider" => th[t].sessionEpoch = currentEpoch

\* the providers a call may still select, and their number as
\* getValidProviderAddress counts them (356-358)
Selectable(t) == Range(validAddresses) \ th[t].ignored
totalValidLength(t) == Len(validAddresses) - Cardinality(th[t].ignored)

====
